---- MODULE Spec2Model ----
(***************************************************************************)
(* State-machine model of the trace-consumer ingestion pipeline:           *)
(*   - PostgresClient.save_processed_message (services/db_service.py)      *)
(*   - KafkaConsumer.consume                 (services/kafka_service.py)   *)
(*   - TraceConsumer.process_message         (consumer.py)                 *)
(*   - the start-up seeding of the dedup set and the shutdown (app.py)     *)
(*   - the health aggregator and its probes  (services/healthcheck.py)     *)
(*   - the periodic health prober            (consumer.py)                 *)
(* Durations are integers in milliseconds.  An Optional value is the empty *)
(* sequence (None) or a one-element sequence.                              *)
(***************************************************************************)
EXTENDS Integers, Sequences, FiniteSets, TLC

VARIABLES
    store,                \* committed contents of the PostgreSQL schema
    last,                 \* the latest direct call of save_processed_message
    ingested,             \* history: traceId -> the event whose save wrote its row
    pc,                   \* position of the thread running KafkaConsumer.consume
    running,              \* KafkaConsumer.running
    consumer,             \* state of the handle held in KafkaConsumer.consumer
    processed_trace_ids,  \* KafkaConsumer.processed_trace_ids
    reconnect_attempts,   \* local of consume
    reconnect_backoff,    \* local of consume, in ms
    msg,                  \* the message returned by the latest poll
    trace_msg,            \* the decoded TraceProcessedMessage (Optional)
    retry,                \* loop variable of the retry loop
    process_error,        \* local of consume (Optional)
    slept,                \* the latest time.sleep of consume: [why, ms]
    hist,                 \* history of the current run: counters of calls
    is_ready,             \* HealthCheckHandler.is_ready
    is_db_healthy,        \* HealthCheckHandler.is_db_healthy
    is_kafka_healthy,     \* HealthCheckHandler.is_kafka_healthy
    is_running,           \* HealthCheckServer.is_running
    response,             \* the latest response of the probe server (Optional)
    close_pc,             \* position of the thread calling KafkaConsumer.close
    db_up,                \* environment: the PostgreSQL server is reachable
    conn_txn,             \* transaction status of the connection PostgresClient.conn
    saving,               \* the call of save_processed_message in progress (Optional)
    probe_pc,             \* position of the thread running health_check_worker
    db_healthy,           \* local of health_check_worker
    probe_slept,          \* the latest time.sleep of health_check_worker, in seconds
    tc_running,           \* TraceConsumer.running
    main_pc,              \* position of the main thread in the start-up of main
    main_done,            \* history: the start-up steps completed, in order
    writers,              \* history: flag -> the threads that have written it
    broker_up,            \* environment: the Kafka brokers are reachable
    savers                \* the transactions of the consumer instances on the store

healthVars == <<is_ready, is_db_healthy, is_kafka_healthy, is_running, response>>

proberVars == <<db_up, conn_txn, saving, probe_pc, db_healthy, probe_slept,
                tc_running>>

envVars == <<broker_up, savers>>

\* The variables of main, and those of the environment that are framed with them.
mainVars == <<main_pc, main_done, writers, envVars>>

serviceVars == <<healthVars, close_pc, proberVars, mainVars>>

vars == <<store, last, ingested, pc, running, consumer, processed_trace_ids,
          reconnect_attempts, reconnect_backoff, msg, trace_msg, retry,
          process_error, slept, hist, serviceVars>>

storeVars == <<store, last, ingested>>

loopVars == <<pc, running, consumer, processed_trace_ids, reconnect_attempts,
              reconnect_backoff, msg, trace_msg, retry, process_error, slept, hist>>

----------------------------------------------------------------------------
(* Bounds of the model *)

MaxTraces == 2      \* distinct traceId values
MaxCourses == 2     \* distinct (courseId, semester, year) keys
MaxRatings == 2     \* ratings of the largest event
MaxComments == 1    \* comments of the largest event
MaxPollErrors == 2  \* consecutive poll errors followed while events are ingested
MaxBackoffErrors == 17 \* consecutive poll errors followed on a topic without events
SeedLimit == 1      \* the limit of get_processed_trace_ids (100 by default), scaled
max_retries == 2    \* Config.max_retries (MAX_RETRIES, 3 by default), scaled

----------------------------------------------------------------------------
(* models/data_models.py *)

NoValue == <<>>
Some(x) == <<x>>

\* Python truthiness of an Optional[str]: None and "" are falsy.
Truthy(opt) == opt # NoValue /\ opt[1] # ""

\* The course key of index c: two consecutive indices share the courseId and
\* differ in the semester.
CourseKey(c) ==
    [courseId |-> (c + 1) \div 2, semester |-> c % 2, year |-> 2024]

\* The contents of an event other than its traceId and course key.  desc
\* stands for the ten descriptive columns of a course, which the code always
\* reads and writes together.
ShapeFull ==
    [desc |-> "d1", name |-> "A. Smith", nr |-> MaxRatings, nc |-> MaxComments,
     processedAt |-> 1, error |-> NoValue]

ShapeUpstreamError ==
    [desc |-> "d2", name |-> "B. Jones", nr |-> 1, nc |-> 0,
     processedAt |-> 2, error |-> Some("upstream failure")]

ShapeEmptyError ==
    [desc |-> "d2", name |-> "A. Smith", nr |-> 0, nc |-> MaxComments,
     processedAt |-> 1, error |-> Some("")]

\* The shape of the event of traceId t for the course key of index c.
ShapeOf(t, c) ==
    CASE (t + c) % 3 = 0 -> ShapeFull
      [] (t + c) % 3 = 1 -> ShapeUpstreamError
      [] OTHER -> ShapeEmptyError

TraceProcessedMessage(t, c, s) ==
    [traceId |-> t,
     course |-> [courseId |-> CourseKey(c).courseId,
                 semester |-> CourseKey(c).semester,
                 year |-> CourseKey(c).year,
                 desc |-> s.desc],
     instructor |-> [name |-> s.name],
     ratings |-> [k \in 1..s.nr |-> [questionText |-> <<t, k>>]],
     comments |-> [k \in 1..s.nc |-> [commentText |-> <<t, k>>]],
     processedAt |-> s.processedAt,
     error |-> s.error]

Events ==
    { TraceProcessedMessage(t, c, ShapeOf(t, c)) : t \in 1..MaxTraces, c \in 1..MaxCourses }

\* The event of the specifications that follow one event only.
TheEvent == TraceProcessedMessage(1, 1, ShapeOf(1, 1))

DbInstructor_from_instructor(instructor) == [name |-> instructor.name]

DbCourse_from_course(course) ==
    [course_id |-> course.courseId, semester |-> course.semester,
     year |-> course.year, desc |-> course.desc]

DbRating_from_rating(rating, course_id) ==
    [course_id |-> course_id, question_text |-> rating.questionText]

DbComment_from_comment(comment, course_id) ==
    [course_id |-> course_id, comment_text |-> comment.commentText]

----------------------------------------------------------------------------
(* services/db_service.py: the statements of save_processed_message *)

EmptyStore ==
    [instructors |-> {}, courses |-> {}, course_instructors |-> {},
     ratings |-> <<>>, comments |-> <<>>, processed_traces |-> {}]

\* A duplicate check that finds no row.
TraceExistsNever(db, traceId) == FALSE

\* SELECT id FROM processed_traces WHERE trace_id = %s ... fetchone()
TraceExists(db, traceId) == \E r \in db.processed_traces : r.trace_id = traceId

\* INSERT INTO instructors ... ON CONFLICT (name) DO UPDATE ... RETURNING id
UpsertInstructor(db, di) ==
    IF \E r \in db.instructors : r.name = di.name
    THEN [db |-> db, id |-> (CHOOSE r \in db.instructors : r.name = di.name).id]
    ELSE LET id == Cardinality(db.instructors) + 1
         IN  [db |-> [db EXCEPT !.instructors = @ \cup {[id |-> id, name |-> di.name]}],
              id |-> id]

SameCourseKey(r, dc) ==
    r.course_id = dc.course_id /\ r.semester = dc.semester /\ r.year = dc.year

\* An upsert that keeps the stored row on a conflict (DO NOTHING).
UpsertCourseKeepsOld(db, dc) ==
    IF \E r \in db.courses : SameCourseKey(r, dc)
    THEN [db |-> db, id |-> (CHOOSE r \in db.courses : SameCourseKey(r, dc)).id]
    ELSE LET id == Cardinality(db.courses) + 1
         IN  [db |-> [db EXCEPT !.courses = @ \cup
                         {[id |-> id, course_id |-> dc.course_id,
                           semester |-> dc.semester, year |-> dc.year,
                           desc |-> dc.desc]}],
              id |-> id]

\* An upsert that replaces the stored row on a conflict: the course gets a
\* new id.
UpsertCourseReplacesRow(db, dc) ==
    LET olds == {r \in db.courses : SameCourseKey(r, dc)}
        id   == Cardinality(db.courses) + 1
    IN  [db |-> [db EXCEPT !.courses = (@ \ olds) \cup
                    {[id |-> id, course_id |-> dc.course_id,
                      semester |-> dc.semester, year |-> dc.year,
                      desc |-> dc.desc]}],
         id |-> id]

\* INSERT INTO courses ... ON CONFLICT (course_id, semester, year) DO UPDATE SET
\* <descriptive columns> = EXCLUDED.<...> RETURNING id
UpsertCourse(db, dc) ==
    IF \E r \in db.courses : SameCourseKey(r, dc)
    THEN LET old == CHOOSE r \in db.courses : SameCourseKey(r, dc)
         IN  [db |-> [db EXCEPT !.courses =
                         (@ \ {old}) \cup {[old EXCEPT !.desc = dc.desc]}],
              id |-> old.id]
    ELSE LET id == Cardinality(db.courses) + 1
         IN  [db |-> [db EXCEPT !.courses = @ \cup
                         {[id |-> id, course_id |-> dc.course_id,
                           semester |-> dc.semester, year |-> dc.year,
                           desc |-> dc.desc]}],
              id |-> id]

\* A link statement that writes no row.
LinkCourseInstructorSkipped(db, course_id, instructor_id) == db

\* INSERT INTO course_instructors ... ON CONFLICT (course_id, instructor_id) DO NOTHING
LinkCourseInstructor(db, course_id, instructor_id) ==
    [db EXCEPT !.course_instructors =
        @ \cup {[course_id |-> course_id, instructor_id |-> instructor_id]}]

\* INSERT INTO ratings (...) VALUES (...)
InsertRating(db, dr) ==
    [db EXCEPT !.ratings =
        Append(@, [id |-> Len(@) + 1, course_id |-> dr.course_id,
                   question_text |-> dr.question_text])]

\* INSERT INTO comments (...) VALUES (...)
InsertComment(db, dm) ==
    [db EXCEPT !.comments =
        Append(@, [id |-> Len(@) + 1, course_id |-> dm.course_id,
                   comment_text |-> dm.comment_text])]

\* status = "error" if message.error else "success"
TraceStatus(message) == IF Truthy(message.error) THEN "error" ELSE "success"

\* INSERT INTO processed_traces (trace_id, course_id, processed_at, status, error_message)
InsertTrace(db, message, course_id) ==
    [db EXCEPT !.processed_traces =
        @ \cup {[id |-> Cardinality(@) + 1, trace_id |-> message.traceId,
                 course_id |-> course_id, processed_at |-> message.processedAt,
                 status |-> TraceStatus(message),
                 error_message |-> message.error]}]

----------------------------------------------------------------------------
(* services/db_service.py: save_processed_message as one transaction *)

Repeat(op, n) == [k \in 1..n |-> op]

\* The statements of a call that lacks the duplicate check.
SaveStepsNoCheck(db, message) ==
    <<"ensure", "select", "instructor", "course", "link">>
    \o Repeat("rating", Len(message.ratings))
    \o Repeat("comment", Len(message.comments))
    \o <<"trace", "commit">>

\* The statements one call executes, in order.  "ensure" is
\* _ensure_connection, "select" the duplicate check, "commit" the commit the
\* transaction context performs on leaving the with block (also on the early
\* return of the duplicate check).
SaveSteps(db, message) ==
    IF TraceExists(db, message.traceId)
    THEN <<"ensure", "select", "commit">>
    ELSE <<"ensure", "select", "instructor", "course", "link">>
         \o Repeat("rating", Len(message.ratings))
         \o Repeat("comment", Len(message.comments))
         \o <<"trace", "commit">>

\* The uncommitted view of the open transaction: the rows as this connection
\* sees them, the ids fetched so far and the loop positions.
BeginTxn(db) ==
    [db |-> db, instructor_id |-> 0, course_id |-> 0, ri |-> 0, ci |-> 0]

ApplyStep(w, message, op) ==
    CASE op = "instructor" ->
            LET r == UpsertInstructor(w.db, DbInstructor_from_instructor(message.instructor))
            IN  [w EXCEPT !.db = r.db, !.instructor_id = r.id]
      [] op = "course" ->
            LET r == UpsertCourse(w.db, DbCourse_from_course(message.course))
            IN  [w EXCEPT !.db = r.db, !.course_id = r.id]
      [] op = "link" ->
            [w EXCEPT !.db = LinkCourseInstructor(w.db, w.course_id, w.instructor_id)]
      [] op = "rating" ->
            [w EXCEPT !.db = InsertRating(w.db,
                                DbRating_from_rating(message.ratings[w.ri + 1], w.course_id)),
                      !.ri = w.ri + 1]
      [] op = "comment" ->
            [w EXCEPT !.db = InsertComment(w.db,
                                DbComment_from_comment(message.comments[w.ci + 1], w.course_id)),
                      !.ci = w.ci + 1]
      [] op = "trace" ->
            [w EXCEPT !.db = InsertTrace(w.db, message, w.course_id)]
      [] OTHER -> w

\* A schema without the unique constraint: no statement is rejected.
RaisesNothing(w, message, op) == FALSE

\* A statement the server rejects whatever the connection does:
\* processed_traces.trace_id is unique.
Raises(w, message, op) == op = "trace" /\ TraceExists(w.db, message.traceId)

\* The transaction after statement op, the n-th, has been issued: it raises
\* when the environment fails it (n = failAt) or the server rejects it.
IssueStatement(p, message, op, n, failAt) ==
    IF n = failAt \/ Raises(p.w, message, op)
    THEN [p EXCEPT !.failed = n]
    ELSE [p EXCEPT !.w = ApplyStep(p.w, message, op)]

RECURSIVE RunFrom(_, _, _, _, _)
\* The statements from the n-th on, until one raises.
RunFrom(p, message, steps, n, failAt) ==
    IF n > Len(steps) \/ p.failed # 0 THEN p
    ELSE RunFrom(IssueStatement(p, message, steps[n], n, failAt),
                 message, steps, n + 1, failAt)

\* The open transaction of a call when it leaves the with block: [w, failed],
\* failed being the index of the statement that raised (0: none).
Work(db, message, failAt) ==
    RunFrom([w |-> BeginTxn(db), failed |-> 0], message, SaveSteps(db, message), 1, failAt)

\* Leaving "with self.conn" on an exception rolls the transaction back.
RollbackKeepsWrites(before, w) == w.db

Rollback(before, w) == before

\* Leaving "with self.conn" normally commits the transaction.
Commit(before, w) == w.db

\* failAt = 0: the environment makes no statement raise.
save_processed_message(db, message, failAt) ==
    LET t == Work(db, message, failAt)
    IN  IF t.failed = 0
        THEN [result |-> TRUE, db |-> Commit(db, t.w)]
        ELSE [result |-> FALSE, db |-> Rollback(db, t.w)]

FailPoints(db, message) == 0..Len(SaveSteps(db, message))

\* A handler that reports success whatever the save returned.
process_message_always_true(db, message, failAt, logRaises) ==
    [raised |-> FALSE, result |-> TRUE,
     db |-> save_processed_message(db, message, failAt).db]

\* consumer.py: process_message logs, then returns what save_processed_message
\* returns.  The first logger call stands before the try block: when it
\* raises (logRaises), process_message raises and nothing has been saved.
process_message(db, message, failAt, logRaises) ==
    IF logRaises
    THEN [raised |-> TRUE, result |-> FALSE, db |-> db]
    ELSE LET r == save_processed_message(db, message, failAt)
         IN  [raised |-> FALSE, result |-> r.result, db |-> r.db]

----------------------------------------------------------------------------
(* Direct calls of save_processed_message on a store, as a caller of the    *)
(* client (or its tests) makes them                                        *)

\* The history of an iteration of consume: what it has done for the message.
NoHistory ==
    [kind |-> "none", trace_id |-> 0, was_processed |-> FALSE, in_store |-> FALSE,
     handler_calls |-> 0, successes |-> 0, commit_calls |-> 0, reported |-> "none",
     done |-> FALSE, consec |-> 0]

InitLoopIdle ==
    /\ pc = "down"
    /\ running = FALSE
    /\ consumer = "none"
    /\ processed_trace_ids = {}
    /\ reconnect_attempts = 0
    /\ reconnect_backoff = 0
    /\ msg = NoValue
    /\ trace_msg = NoValue
    /\ retry = 0
    /\ process_error = NoValue
    /\ slept = NoValue
    /\ hist = NoHistory

InitStore ==
    /\ store = EmptyStore
    /\ last = NoValue
    /\ ingested = [t \in 1..MaxTraces |-> NoValue]

\* services/healthcheck.py: the class attributes of HealthCheckHandler and
\* HealthCheckServer.__init__, before start.
InitHealth ==
    /\ is_ready = FALSE
    /\ is_db_healthy = FALSE
    /\ is_kafka_healthy = FALSE
    /\ is_running = FALSE
    /\ response = NoValue

\* No thread besides the one of the specification at hand has started: the
\* store is reachable, its connection idle, nobody saves, probes or closes.
InitServiceIdle ==
    /\ close_pc = "none"
    /\ db_up = TRUE
    /\ conn_txn = "idle"
    /\ saving = NoValue
    /\ probe_pc = "none"
    /\ db_healthy = FALSE
    /\ probe_slept = 0
    /\ tc_running = FALSE

\* No flag has been written.
NoWriters == [is_ready |-> {}, is_db_healthy |-> {}, is_kafka_healthy |-> {}]

\* app.py main, at its first statement.
InitMain ==
    /\ main_pc = "server"
    /\ main_done = <<>>
    /\ writers = NoWriters

\* Two consumer instances, each with its own PostgresClient and connection.
Instances == {1, 2}

\* No transaction of a consumer instance is open on the store.
NoSaver == [at |-> 0, message |-> NoValue, ops |-> <<>>, outcome |-> "none"]

NoSavers == [i \in Instances |-> NoSaver]

\* The brokers are reachable when the process starts.
InitEnv ==
    /\ broker_up = TRUE
    /\ savers = NoSavers

InitSave == InitStore /\ InitLoopIdle /\ InitHealth /\ InitServiceIdle /\ InitMain /\ InitEnv

SaveCall ==
    \E message \in Events :
      \E failAt \in FailPoints(store, message) :
        LET r == save_processed_message(store, message, failAt)
        IN  /\ store' = r.db
            /\ last' = Some([message |-> message, failAt |-> failAt,
                             result |-> r.result, before |-> store])
            /\ ingested' = IF r.result /\ ~TraceExists(store, message.traceId)
                           THEN [ingested EXCEPT ![message.traceId] = Some(message)]
                           ELSE ingested
            /\ UNCHANGED loopVars
            /\ UNCHANGED serviceVars

NextSave == SaveCall

SpecSave == InitSave /\ [][NextSave]_vars

----------------------------------------------------------------------------
(* services/db_service.py: save_processed_message called by two consumer     *)
(* instances for events of one traceId, each on its own connection,           *)
(* statement by statement.  PostgreSQL at its default isolation level: a      *)
(* statement sees the committed rows and the writes of its own transaction;   *)
(* an insert or upsert waits while another open transaction has written a row *)
(* of the same unique key, and meets that row once the other has committed.   *)
(* A transaction's rows get their ids when it commits.                        *)

\* The events the two instances receive: one traceId, any course, two contents.
SameTraceEvents ==
    { TraceProcessedMessage(TheEvent.traceId, c, sh) :
        c \in 1..MaxCourses, sh \in {ShapeFull, ShapeUpstreamError} }

RECURSIVE ReplayFrom(_, _, _, _)
ReplayFrom(w, message, ops, n) ==
    IF n > Len(ops) THEN w
    ELSE ReplayFrom(ApplyStep(w, message, ops[n]), message, ops, n + 1)

\* The rows as the open transaction of instance i sees them.
ViewOf(i) == ReplayFrom(BeginTxn(store), savers[i].message[1], savers[i].ops, 1)

InTransaction(i) == savers[i].at > 0 /\ savers[i].outcome = "none"

\* The unique key a statement writes, if any.
KeyWritten(message, op) ==
    CASE op = "instructor" -> Some(<<"instructors", message.instructor.name>>)
      [] op = "course" -> Some(<<"courses", message.course.courseId,
                                 message.course.semester, message.course.year>>)
      [] op = "link" -> Some(<<"course_instructors", message.course.courseId,
                               message.course.semester, message.course.year,
                               message.instructor.name>>)
      [] op = "trace" -> Some(<<"processed_traces", message.traceId>>)
      [] OTHER -> NoValue

\* The statement op of instance i waits for the transaction of another.
Blocked(i, message, op) ==
    /\ KeyWritten(message, op) # NoValue
    /\ \E j \in Instances \ {i} :
          /\ InTransaction(j)
          /\ \E n \in 1..Len(savers[j].ops) :
                KeyWritten(savers[j].message[1], savers[j].ops[n])
                    = KeyWritten(message, op)

\* An instance receives an event of the traceId and calls save_processed_message.
SaverBegin ==
    \E i \in Instances, message \in SameTraceEvents :
        /\ savers[i].at = 0
        /\ savers' = [savers EXCEPT ![i] = [at |-> 1, message |-> Some(message),
                                            ops |-> <<>>, outcome |-> "none"]]
        /\ UNCHANGED <<broker_up, main_pc, main_done, writers>>
        /\ UNCHANGED <<storeVars, loopVars, healthVars, close_pc, proberVars>>

\* The next statement of the call of instance i: the duplicate check returns
\* True when it finds the row (the empty transaction commits); a write is
\* executed, or raises on the unique trace_id (the transaction rolls back and
\* the call returns False); the last step commits the transaction.
SaverStep ==
    \E i \in Instances :
        /\ InTransaction(i)
        /\ LET message == savers[i].message[1]
               op      == SaveStepsNoCheck(store, message)[savers[i].at]
               next    == [savers[i] EXCEPT !.at = @ + 1]
           IN  /\ ~Blocked(i, message, op)
               /\ CASE op = "ensure" ->
                        /\ savers' = [savers EXCEPT ![i] = next]
                        /\ store' = store
                   [] op = "select" ->
                        /\ savers' = [savers EXCEPT ![i] =
                              IF TraceExists(ViewOf(i).db, message.traceId)
                              THEN [next EXCEPT !.outcome = "skipped"]
                              ELSE next]
                        /\ store' = store
                   [] op = "commit" ->
                        /\ savers' = [savers EXCEPT ![i] =
                                          [next EXCEPT !.outcome = "committed"]]
                        /\ store' = Commit(store, ViewOf(i))
                   [] OTHER ->
                        /\ savers' = [savers EXCEPT ![i] =
                              IF Raises(ViewOf(i), message, op)
                              THEN [next EXCEPT !.outcome = "rejected"]
                              ELSE [next EXCEPT !.ops = Append(@, op)]]
                        /\ store' = store
        /\ UNCHANGED <<last, ingested>>
        /\ UNCHANGED <<broker_up, main_pc, main_done, writers>>
        /\ UNCHANGED <<loopVars, healthVars, close_pc, proberVars>>

\* A statement of instance i raises for a reason of the environment: the
\* transaction rolls back and the call returns False.
SaverFails ==
    \E i \in Instances :
        /\ InTransaction(i)
        /\ savers' = [savers EXCEPT ![i].outcome = "failed"]
        /\ UNCHANGED <<broker_up, main_pc, main_done, writers>>
        /\ UNCHANGED <<storeVars, loopVars, healthVars, close_pc, proberVars>>

NextTwoSavers ==
    \/ SaverBegin
    \/ SaverStep
    \/ SaverFails

SpecTwoSavers == InitSave /\ [][NextTwoSavers]_vars

----------------------------------------------------------------------------
(* The topic: what consumer.poll can return *)

\* The JSON document a producer writes for an event: processedAt is an
\* ISO-8601 string.
JsonOf(message) ==
    [traceId |-> Some(message.traceId),
     course |-> message.course,
     instructor |-> message.instructor,
     ratings |-> message.ratings,
     comments |-> message.comments,
     processedAt |-> <<"iso", message.processedAt>>,
     error |-> message.error]

\* A payload: its raw bytes and, when they are a JSON text, the document.
EmptyPayload == [raw |-> "", doc |-> NoValue]
NotJsonPayload == [raw |-> "{not json", doc |-> NoValue]
JsonPayload(d) == [raw |-> "{...}", doc |-> Some(d)]

\* A JSON object that lacks the required field traceId.
MissingTraceId(message) == [JsonOf(message) EXCEPT !.traceId = NoValue]

Payloads ==
    {EmptyPayload, NotJsonPayload}
    \cup {JsonPayload(JsonOf(m)) : m \in Events}
    \cup {JsonPayload(MissingTraceId(m)) : m \in {TraceProcessedMessage(1, 1, ShapeOf(1, 1))}}

\* msg.value(): the payload, or None for a message without a value.
Values == {NoValue} \cup {Some(v) : v \in Payloads}

----------------------------------------------------------------------------
(* services/kafka_service.py *)

max_reconnect_attempts == 15
InitialBackoff == 500
MaxBackoff == 10000
CooldownSleep == 30000
ExceptionSleep == 1000
retry_backoff_ms == 1000

\* json.loads(value): the document, or JSONDecodeError.
json_loads(v) ==
    IF v.doc # NoValue THEN [ok |-> TRUE, doc |-> v.doc[1]] ELSE [ok |-> FALSE, doc |-> NoValue]

\* _parse_dates_in_dict: ISO date strings become datetime values.
parse_dates_in_dict(d) ==
    IF d.processedAt[1] = "iso" THEN [d EXCEPT !.processedAt = d.processedAt[2]] ELSE d

\* TraceProcessedMessage(**message_dict): pydantic validation of the schema.
Validate(d) ==
    IF d.traceId # NoValue
    THEN [ok |-> TRUE, message |-> [d EXCEPT !.traceId = d.traceId[1]]]
    ELSE [ok |-> FALSE, message |-> NoValue]

is_trace_processed_never(ids, trace_id) == FALSE

is_trace_processed(ids, trace_id) == trace_id \in ids

\* An add that leaves the set as it is.
add_processed_trace_id_skipped(ids, trace_id) == ids

add_processed_trace_id(ids, trace_id) == ids \cup {trace_id}

\* if reconnect_attempts < max_reconnect_attempts
MayReconnectOffByOne(attempts) == attempts <= max_reconnect_attempts

MayReconnect(attempts) == attempts < max_reconnect_attempts

\* reconnect_backoff *= 2; if reconnect_backoff > 10: reconnect_backoff = 10
NextBackoffUncapped(backoff) == backoff * 2

NextBackoff(backoff) == IF backoff * 2 > MaxBackoff THEN MaxBackoff ELSE backoff * 2

Sleep(why, ms) == Some([why |-> why, ms |-> ms])

\* services/db_service.py: get_processed_trace_ids.  The possible results:
\* the trace ids of the limit rows of greatest processed_at (ties in any
\* order), or nothing when the query raises.
get_processed_trace_ids(db, limit) ==
    LET rows == db.processed_traces
        n    == IF Cardinality(rows) < limit THEN Cardinality(rows) ELSE limit
        tops == { S \in SUBSET rows :
                    /\ Cardinality(S) = n
                    /\ \A r \in S, q \in rows \ S : r.processed_at >= q.processed_at }
    IN  { {r.trace_id : r \in S} : S \in tops } \cup {{}}

\* app.py main: the process starts: the dedup seed is read from the store and
\* the KafkaConsumer is constructed with it (its consumer created and
\* subscribed, running False); then the broker flag is set.
Startup ==
    /\ pc = "down"
    /\ \E seed \in get_processed_trace_ids(store, SeedLimit) :
           processed_trace_ids' = seed
    /\ consumer' = "open"
    /\ running' = FALSE
    /\ pc' = "start"
    /\ is_kafka_healthy' = TRUE
    /\ writers' = [writers EXCEPT !.is_kafka_healthy = @ \cup {"main"}]
    /\ UNCHANGED <<reconnect_attempts, reconnect_backoff, msg, trace_msg, retry,
                   process_error, slept, hist>>
    /\ UNCHANGED storeVars
    /\ UNCHANGED <<is_ready, is_db_healthy, is_running, response, close_pc, proberVars>>
    /\ UNCHANGED <<main_pc, main_done, envVars>>

\* The process is killed: everything it holds in memory is gone, the store
\* stays.  The flags of the next process start at their class defaults.
Crash ==
    /\ pc # "down"
    /\ pc' = "down"
    /\ running' = FALSE
    /\ consumer' = "none"
    /\ processed_trace_ids' = {}
    /\ reconnect_attempts' = 0
    /\ reconnect_backoff' = 0
    /\ msg' = NoValue
    /\ trace_msg' = NoValue
    /\ retry' = 0
    /\ process_error' = NoValue
    /\ slept' = NoValue
    /\ hist' = NoHistory
    /\ is_kafka_healthy' = FALSE
    /\ writers' = NoWriters
    /\ UNCHANGED storeVars
    /\ UNCHANGED <<is_ready, is_db_healthy, is_running, response, close_pc, proberVars>>
    /\ UNCHANGED <<main_pc, main_done, envVars>>

\* consume, up to the loop.
ConsumeStart ==
    /\ pc = "start"
    /\ reconnect_attempts' = 0
    /\ reconnect_backoff' = InitialBackoff
    /\ running' = TRUE
    /\ hist' = NoHistory
    /\ pc' = "poll"
    /\ UNCHANGED <<consumer, processed_trace_ids, msg, trace_msg, retry,
                   process_error, slept>>
    /\ UNCHANGED storeVars
    /\ UNCHANGED serviceVars

AtPoll == pc = "poll" /\ running

\* poll returns None, or an end-of-partition event: continue.
PollNothing ==
    /\ AtPoll
    /\ consumer = "open"
    /\ \E m \in {NoValue, Some([error |-> "_PARTITION_EOF", value |-> NoValue])} :
           msg' = NoValue
    /\ UNCHANGED <<pc, running, consumer, processed_trace_ids, reconnect_attempts,
                   reconnect_backoff, trace_msg, retry, process_error, slept, hist>>
    /\ UNCHANGED storeVars
    /\ UNCHANGED serviceVars

\* poll returns a message that carries an error other than end of partition.
PollErrorUpTo(bound) ==
    /\ AtPoll
    /\ consumer = "open"
    /\ hist.consec < bound
    /\ msg' = NoValue
    /\ hist' = [hist EXCEPT !.consec = @ + 1]
    /\ IF MayReconnect(reconnect_attempts)
       THEN /\ reconnect_attempts' = reconnect_attempts + 1
            /\ slept' = Sleep("reconnect", reconnect_backoff)
            /\ reconnect_backoff' = NextBackoff(reconnect_backoff)
            /\ pc' = "reconnect"
       ELSE /\ slept' = Sleep("cooldown", CooldownSleep)
            /\ reconnect_attempts' = 0
            /\ reconnect_backoff' = InitialBackoff
            /\ pc' = "poll"
    /\ UNCHANGED <<running, consumer, processed_trace_ids, trace_msg, retry, process_error>>
    /\ UNCHANGED storeVars
    /\ UNCHANGED serviceVars

PollError == PollErrorUpTo(MaxPollErrors)

\* A _reconnect that reports the state of the connection to the aggregator.
ReconnectReportsHealth ==
    /\ pc = "reconnect"
    /\ \/ /\ consumer' = "open"
          /\ slept' = slept
       \/ /\ consumer' = "closed"
          /\ slept' = Sleep("exception", ExceptionSleep)
       \/ /\ consumer' = consumer
          /\ slept' = Sleep("exception", ExceptionSleep)
    /\ is_kafka_healthy' = (consumer' = "open")
    /\ writers' = [writers EXCEPT !.is_kafka_healthy = @ \cup {"consume"}]
    /\ pc' = "poll"
    /\ UNCHANGED <<running, processed_trace_ids, reconnect_attempts, reconnect_backoff,
                   msg, trace_msg, retry, process_error, hist>>
    /\ UNCHANGED storeVars
    /\ UNCHANGED <<is_ready, is_db_healthy, is_running, response, close_pc, proberVars>>
    /\ UNCHANGED <<main_pc, main_done, envVars>>

\* _reconnect: the old consumer is closed, then a new one is created and
\* subscribed; when the creation raises, the exception leaves the iteration
\* through the outer handler and self.consumer still names the closed one;
\* when the close raises, self.consumer names the old one, as the close left it.
Reconnect ==
    /\ pc = "reconnect"
    /\ \/ /\ consumer' = "open"
          /\ slept' = slept
       \/ /\ consumer' = "closed"
          /\ slept' = Sleep("exception", ExceptionSleep)
       \/ /\ consumer' = consumer
          /\ slept' = Sleep("exception", ExceptionSleep)
    /\ pc' = "poll"
    /\ UNCHANGED <<running, processed_trace_ids, reconnect_attempts, reconnect_backoff,
                   msg, trace_msg, retry, process_error, hist>>
    /\ UNCHANGED storeVars
    /\ UNCHANGED serviceVars

\* poll raises (KafkaException, or RuntimeError on a closed consumer): the
\* outer handlers log, sleep one second and continue.
PollRaises ==
    /\ AtPoll
    /\ consumer \in {"open", "closed"}
    /\ slept' = Sleep("exception", ExceptionSleep)
    /\ msg' = NoValue
    /\ UNCHANGED <<pc, running, consumer, processed_trace_ids, reconnect_attempts,
                   reconnect_backoff, trace_msg, retry, process_error, hist>>
    /\ UNCHANGED storeVars
    /\ UNCHANGED serviceVars

\* The kind of a payload, by what it is (not by what consume does with it).
PayloadKind(value) ==
    IF value = NoValue THEN "none"
    ELSE IF value[1].raw = "" THEN "empty"
    ELSE IF value[1].doc = NoValue THEN "badjson"
    ELSE IF value[1].doc[1].traceId = NoValue THEN "badschema"
    ELSE "decoded"

\* poll returns a message without error: the reconnect state is reset and the
\* value is decoded, up to the duplicate check.
ReceiveFrom(values) ==
    /\ AtPoll
    /\ consumer = "open"
    /\ \E value \in values :
        LET parsed == json_loads(value[1])
            valid  == Validate(parse_dates_in_dict(parsed.doc))
            h      == [NoHistory EXCEPT !.kind = PayloadKind(value)]
        IN  /\ msg' = Some([error |-> "none", value |-> value])
            /\ reconnect_attempts' = 0
            /\ reconnect_backoff' = InitialBackoff
            /\ IF value = NoValue \/ value[1].raw = ""
               THEN /\ pc' = "poll"
                    /\ hist' = [h EXCEPT !.done = TRUE]
                    /\ UNCHANGED <<trace_msg, retry, process_error>>
               ELSE IF ~parsed.ok
               THEN /\ pc' = "commit_json"
                    /\ hist' = h
                    /\ UNCHANGED <<trace_msg, retry, process_error>>
               ELSE IF ~valid.ok
               THEN /\ pc' = "commit_exc"
                    /\ hist' = h
                    /\ UNCHANGED <<trace_msg, retry, process_error>>
               ELSE /\ trace_msg' = Some(valid.message)
                    /\ hist' = [h EXCEPT !.trace_id = valid.message.traceId,
                                         !.was_processed =
                                    valid.message.traceId \in processed_trace_ids,
                                         !.in_store =
                                    \E row \in store.processed_traces :
                                        row.trace_id = valid.message.traceId]
                    /\ IF is_trace_processed(processed_trace_ids, valid.message.traceId)
                       THEN /\ pc' = "commit_dup"
                            /\ UNCHANGED <<retry, process_error>>
                       ELSE /\ pc' = IF 0 < max_retries + 1 THEN "attempt" ELSE "commit"
                            /\ retry' = 0
                            /\ process_error' = NoValue
    /\ UNCHANGED <<running, consumer, processed_trace_ids, slept>>
    /\ UNCHANGED storeVars
    /\ UNCHANGED serviceVars

Receive == ReceiveFrom(Values)

\* The error the retry loop keeps after a failed attempt: the exception the
\* handler raised, or Exception("Handler returned False").
NewProcessError(old, retry_, raised) ==
    Some([error |-> IF raised THEN "raised by handler" ELSE "Handler returned False",
          attempt |-> retry_])

\* for retry in range(self.max_retries + 1)
RetryLoopContinuesOneMore(retry_) == retry_ <= max_retries + 1

RetryLoopContinues(retry_) == retry_ < max_retries + 1

\* One iteration of the retry loop: the handler (process_message) saves the
\* event; on success the id joins the dedup set and the loop ends.
Attempt ==
    /\ pc = "attempt"
    /\ \E failAt \in FailPoints(store, trace_msg[1]), logRaises \in BOOLEAN :
        LET r == process_message(store, trace_msg[1], failAt, logRaises)
        IN  /\ store' = r.db
            /\ ingested' = IF r.result /\ ~TraceExists(store, trace_msg[1].traceId)
                           THEN [ingested EXCEPT ![trace_msg[1].traceId] = Some(trace_msg[1])]
                           ELSE ingested
            /\ slept' = IF retry > 0 THEN Sleep("retry", retry_backoff_ms) ELSE slept
            /\ IF ~r.raised /\ r.result
               THEN /\ processed_trace_ids' =
                          add_processed_trace_id(processed_trace_ids, trace_msg[1].traceId)
                    /\ process_error' = NoValue
                    /\ hist' = [hist EXCEPT !.handler_calls = @ + 1, !.successes = @ + 1]
                    /\ retry' = retry
                    /\ pc' = "commit"
               ELSE /\ process_error' = NewProcessError(process_error, retry, r.raised)
                    /\ hist' = [hist EXCEPT !.handler_calls = @ + 1]
                    /\ retry' = retry + 1
                    /\ pc' = IF RetryLoopContinues(retry + 1) THEN "attempt" ELSE "commit"
                    /\ UNCHANGED processed_trace_ids
    /\ UNCHANGED <<running, consumer, reconnect_attempts, reconnect_backoff, msg,
                   trace_msg, last>>
    /\ UNCHANGED serviceVars

\* The iteration is over: its locals are dead until the next poll assigns them.
EndIteration ==
    /\ pc' = "poll"
    /\ msg' = NoValue
    /\ trace_msg' = NoValue
    /\ retry' = 0
    /\ process_error' = NoValue

\* consumer.commit(message=msg, asynchronous=False) after the retry loop, and
\* the report of the outcome.  When the commit raises, the handler of Exception
\* of the inner try takes over.
CommitProcessed ==
    /\ pc = "commit"
    /\ \/ /\ consumer = "open"
          /\ hist' = [hist EXCEPT !.commit_calls = @ + 1, !.done = TRUE,
                                  !.reported = IF process_error # NoValue
                                               THEN "failure" ELSE "success"]
          /\ EndIteration
       \/ /\ hist' = [hist EXCEPT !.commit_calls = @ + 1]
          /\ pc' = "commit_exc"
          /\ UNCHANGED <<msg, trace_msg, retry, process_error>>
    /\ UNCHANGED <<running, consumer, processed_trace_ids, reconnect_attempts,
                   reconnect_backoff, slept>>
    /\ UNCHANGED storeVars
    /\ UNCHANGED serviceVars

\* The commit of an already processed trace, then continue.
CommitDuplicate ==
    /\ pc = "commit_dup"
    /\ \/ /\ consumer = "open"
          /\ hist' = [hist EXCEPT !.commit_calls = @ + 1, !.done = TRUE]
          /\ EndIteration
       \/ /\ hist' = [hist EXCEPT !.commit_calls = @ + 1]
          /\ pc' = "commit_exc"
          /\ UNCHANGED <<msg, trace_msg, retry, process_error>>
    /\ UNCHANGED <<running, consumer, processed_trace_ids, reconnect_attempts,
                   reconnect_backoff, slept>>
    /\ UNCHANGED storeVars
    /\ UNCHANGED serviceVars

\* The commit in a handler of the inner try (JSONDecodeError, Exception).  When
\* it raises, the outer handlers log, sleep one second and continue.
CommitInHandler ==
    /\ pc \in {"commit_json", "commit_exc"}
    /\ \/ /\ consumer = "open"
          /\ slept' = slept
       \/ slept' = Sleep("exception", ExceptionSleep)
    /\ hist' = [hist EXCEPT !.commit_calls = @ + 1, !.done = TRUE]
    /\ EndIteration
    /\ UNCHANGED <<running, consumer, processed_trace_ids, reconnect_attempts,
                   reconnect_backoff>>
    /\ UNCHANGED storeVars
    /\ UNCHANGED serviceVars

Init == InitStore /\ InitLoopIdle /\ InitHealth /\ InitServiceIdle /\ InitMain /\ InitEnv

Next ==
    \/ Startup
    \/ Crash
    \/ ConsumeStart
    \/ PollNothing
    \/ PollError
    \/ Reconnect
    \/ PollRaises
    \/ Receive
    \/ Attempt
    \/ CommitProcessed
    \/ CommitDuplicate
    \/ CommitInHandler

Spec == Init /\ [][Next]_vars

----------------------------------------------------------------------------
(* The reconnect path of consume on a topic that delivers no event: every    *)
(* message is a tombstone, an empty payload or a text that is no JSON        *)

PollErrorOften == PollErrorUpTo(MaxBackoffErrors)

\* msg.value() on that topic.
NoEventValues == {NoValue, Some(EmptyPayload), Some(NotJsonPayload)}

ReceiveNoEvent == ReceiveFrom(NoEventValues)

NextBackoffPath ==
    \/ Startup
    \/ ConsumeStart
    \/ PollNothing
    \/ PollErrorOften
    \/ Reconnect
    \/ PollRaises
    \/ ReceiveNoEvent
    \/ CommitInHandler

SpecBackoff == Init /\ [][NextBackoffPath]_vars

----------------------------------------------------------------------------
(* The reconnect path while the brokers come and go.  poll reports errors    *)
(* while the brokers are unreachable and delivers messages while they are    *)
(* reachable; a consumer (whose creation does not wait for a broker) is      *)
(* created by _reconnect whenever the brokers are reachable.                 *)

BrokerDown ==
    /\ broker_up
    /\ broker_up' = FALSE
    /\ UNCHANGED <<savers, main_pc, main_done, writers>>
    /\ UNCHANGED <<storeVars, loopVars, healthVars, close_pc, proberVars>>

BrokerUp ==
    /\ ~broker_up
    /\ broker_up' = TRUE
    /\ UNCHANGED <<savers, main_pc, main_done, writers>>
    /\ UNCHANGED <<storeVars, loopVars, healthVars, close_pc, proberVars>>

PollErrorBrokerDown == ~broker_up /\ PollErrorOften

ReconnectBrokerDown == ~broker_up /\ Reconnect

ReconnectBrokerUp == broker_up /\ Reconnect /\ consumer' = "open"

ReceiveBrokerUp == broker_up /\ ReceiveNoEvent

\* The steps of the thread that runs consume on this path.
ConsumeThreadReconnect ==
    \/ ConsumeStart
    \/ PollNothing
    \/ PollErrorBrokerDown
    \/ ReconnectBrokerDown
    \/ ReconnectBrokerUp
    \/ PollRaises
    \/ ReceiveBrokerUp
    \/ CommitInHandler

NextReconnect ==
    \/ Startup
    \/ ConsumeStart
    \/ PollNothing
    \/ PollErrorBrokerDown
    \/ ReconnectBrokerDown
    \/ ReconnectBrokerUp
    \/ PollRaises
    \/ ReceiveBrokerUp
    \/ CommitInHandler
    \/ BrokerDown
    \/ BrokerUp

SpecReconnect == Init /\ [][NextReconnect]_vars

\* The thread that runs consume is scheduled again and again.
SpecReconnectFair == SpecReconnect /\ WF_vars(ConsumeThreadReconnect)


----------------------------------------------------------------------------
(* Properties of save_processed_message, checked under SpecSave *)

TraceRows(db, traceId) == {r \in db.processed_traces : r.trace_id = traceId}

CourseRows(db, course) ==
    {r \in db.courses : SameCourseKey(r, DbCourse_from_course(course))}

\* The question texts (comment texts) of the rows an event of this traceId wrote.
RatingTextsOf(db, traceId) ==
    LET rows == SelectSeq(db.ratings, LAMBDA r : r.question_text[1] = traceId)
    IN  [k \in 1..Len(rows) |-> rows[k].question_text]

CommentTextsOf(db, traceId) ==
    LET rows == SelectSeq(db.comments, LAMBDA r : r.comment_text[1] = traceId)
    IN  [k \in 1..Len(rows) |-> rows[k].comment_text]

IsPrefix(a, b) == Len(a) <= Len(b) /\ SubSeq(b, 1, Len(a)) = a

\* The latest call repeats the call that wrote the row of its traceId.
SecondCallOfSameEvent ==
    /\ last # NoValue
    /\ TraceExists(last[1].before, last[1].message.traceId)
    /\ ingested[last[1].message.traceId] = Some(last[1].message)
    /\ last[1].failAt = 0

\* C3: a second save of the same event (no statement failing) returns True
\* and writes nothing: the store holds one processed_traces row of the
\* traceId, one course row of its key and the rating and comment rows of the
\* first call, each once.
C3_SecondSaveIsNoOp ==
    SecondCallOfSameEvent =>
        LET m == last[1].message
        IN  /\ last[1].result = TRUE
            /\ store = last[1].before
            /\ Cardinality(TraceRows(store, m.traceId)) = 1
            /\ Cardinality(CourseRows(store, m.course)) = 1
            /\ RatingTextsOf(store, m.traceId) = [k \in 1..Len(m.ratings) |-> m.ratings[k].questionText]
            /\ CommentTextsOf(store, m.traceId) = [k \in 1..Len(m.comments) |-> m.comments[k].commentText]

C3_Witness ==
    /\ SecondCallOfSameEvent
    /\ Len(last[1].message.ratings) > 0
    /\ Len(last[1].message.comments) > 0

\* The latest call failed at a statement after the transaction had written rows.
FailedAfterWrites ==
    /\ last # NoValue
    /\ last[1].failAt # 0
    /\ Work(last[1].before, last[1].message, last[1].failAt).w.db # last[1].before

\* C4: a save in which any statement fails leaves the store as it was before
\* the call and returns False.
C4_FailedSaveWritesNothing ==
    (last # NoValue /\ last[1].failAt # 0) =>
        (store = last[1].before /\ last[1].result = FALSE)

C4_Witness ==
    /\ FailedAfterWrites
    /\ last[1].failAt = Len(SaveSteps(last[1].before, last[1].message))
    /\ Len(last[1].message.ratings) > 0

\* The latest call saved a new traceId for a course key the store already held.
ReingestedCourse ==
    /\ last # NoValue
    /\ last[1].failAt = 0
    /\ ~TraceExists(last[1].before, last[1].message.traceId)
    /\ CourseRows(last[1].before, last[1].message.course) # {}

\* C5: saving an event of a new traceId for a stored course key overwrites the
\* descriptive fields, keeps the course id, adds no course row, keeps every
\* earlier rating and comment row in place and adds the event's rows.
C5_UpsertKeepsIdAndRows ==
    ReingestedCourse =>
        LET m   == last[1].message
            b   == last[1].before
            old == CHOOSE r \in CourseRows(b, m.course) : TRUE
        IN  /\ last[1].result = TRUE
            /\ CourseRows(store, m.course) = {[old EXCEPT !.desc = m.course.desc]}
            /\ Cardinality(store.courses) = Cardinality(b.courses)
            /\ IsPrefix(b.ratings, store.ratings)
            /\ IsPrefix(b.comments, store.comments)
            /\ Len(store.ratings) = Len(b.ratings) + Len(m.ratings)
            /\ Len(store.comments) = Len(b.comments) + Len(m.comments)
            /\ \A k \in (Len(b.ratings) + 1)..Len(store.ratings) :
                   store.ratings[k].course_id = old.id
            /\ \A k \in (Len(b.comments) + 1)..Len(store.comments) :
                   store.comments[k].course_id = old.id

C5_Witness ==
    /\ ReingestedCourse
    /\ Len(last[1].before.ratings) > 0
    /\ Len(last[1].before.comments) > 0
    /\ Len(last[1].message.ratings) > 0
    /\ \E r \in CourseRows(last[1].before, last[1].message.course) :
           r.desc # last[1].message.course.desc

----------------------------------------------------------------------------
(* Properties of KafkaConsumer.consume, checked under Spec *)

\* The message in hand was decoded and its traceId was not in the dedup set.
NewEvent == hist.kind = "decoded" /\ ~hist.was_processed

\* The retry loop has ended without a successful attempt.
RetriesExhausted ==
    /\ NewEvent
    /\ hist.successes = 0
    /\ pc = "commit"

\* C1: for a decoded event not in the dedup set whose every handler invocation
\* fails, the handler is invoked max_retries + 1 times, the error of the last
\* attempt is retained, the outcome reported is failure and the id does not
\* join the dedup set.
C1_RetryBound ==
    (NewEvent /\ hist.successes = 0) =>
        /\ hist.handler_calls <= max_retries + 1
        /\ hist.trace_id \notin processed_trace_ids
        /\ hist.reported \in {"none", "failure"}
        /\ (hist.done /\ hist.commit_calls = 1) => hist.reported = "failure"
        /\ pc = "commit" =>
              /\ hist.handler_calls = max_retries + 1
              /\ process_error # NoValue
              /\ process_error[1].attempt = max_retries

C1_Witness ==
    /\ RetriesExhausted
    /\ hist.handler_calls = max_retries + 1
    /\ process_error = Some([error |-> "raised by handler", attempt |-> max_retries])

C1_WitnessReported ==
    /\ NewEvent
    /\ hist.successes = 0
    /\ hist.reported = "failure"

\* C2: for every decoded message and every decode failure, whatever commit
\* returns, the commit of the offset is attempted exactly once, and only after
\* the last handler attempt.
C2_CommitExactlyOnce ==
    hist.kind \in {"decoded", "badjson", "badschema"} =>
        /\ hist.commit_calls <= 1
        /\ hist.done => hist.commit_calls = 1
        /\ pc = "attempt" => hist.commit_calls = 0

\* C6: every id of the dedup set has a committed processed_traces row, and the
\* seed read at start-up holds at most the limit of ids.
C6_DedupSetIsRecorded ==
    /\ \A id \in processed_trace_ids : TraceExists(store, id)
    /\ pc = "start" => Cardinality(processed_trace_ids) <= SeedLimit

C6_Witness ==
    /\ pc = "start"
    /\ Cardinality(processed_trace_ids) = SeedLimit
    /\ Cardinality(store.processed_traces) > SeedLimit

C6_WitnessAdded ==
    /\ pc = "commit"
    /\ hist.successes = 1
    /\ hist.handler_calls > 1
    /\ hist.trace_id \in processed_trace_ids

\* C7: an event whose traceId is in the dedup set is never handed to the
\* handler, the store is not touched, its offset is committed and the loop
\* goes on to the next poll.
C7_DuplicateSkipped ==
    /\ [](hist.was_processed =>
            /\ hist.handler_calls = 0
            /\ ~hist.done => pc \in {"commit_dup", "commit_exc"}
            /\ hist.done => hist.commit_calls >= 1)
    /\ [][hist'.was_processed =>
            /\ store' = store
            /\ (~hist.done /\ hist'.done) => (pc' = "poll" /\ running')]_vars

C7_Witness ==
    /\ hist.was_processed
    /\ hist.done
    /\ hist.commit_calls = 1
    /\ pc = "poll"
    /\ running

MalformedKinds == {"empty", "badjson", "badschema"}

\* C8: a message whose payload is no valid JSON or violates the schema has its
\* offset committed, never reaches the handler, writes no store row, leaves
\* the dedup set as it is, and consume keeps running.
C8_MalformedDropped ==
    hist.kind \in MalformedKinds =>
        /\ hist.handler_calls = 0
        /\ hist.done => hist.commit_calls >= 1
        /\ running

\* C8, for the payloads that are not empty.
C8_NonEmptyMalformedDropped ==
    hist.kind \in {"badjson", "badschema"} =>
        /\ hist.handler_calls = 0
        /\ hist.done => hist.commit_calls >= 1
        /\ running

----------------------------------------------------------------------------
(* Properties of the reconnect path of consume, checked under SpecBackoff *)

Min(a, b) == IF a < b THEN a ELSE b

\* min(10 s, 0.5 s * 2^(k-1))
BackoffDelay(k) == Min(MaxBackoff, InitialBackoff * 2 ^ (k - 1))

\* The step handles a poll error: the count of consecutive errors grows.
PollErrorStep == hist'.consec = hist.consec + 1

\* The step receives a message after poll errors.
ReceiptAfterErrors == hist.consec > 0 /\ hist'.consec = 0 /\ running'

\* The place of the k-th consecutive error in the cycle of 15 reconnects and
\* one cooldown.
PlaceInCycle(k) == ((k - 1) % (max_reconnect_attempts + 1)) + 1

\* C9 as stated: the k-th consecutive poll error since the last received
\* message, for every k, is followed by a reconnect delay of
\* min(10, 0.5 * 2^(k-1)) s; the delay never exceeds 10 s; a received message
\* resets the counter and the delay.
C9_BackoffForEveryK ==
    [][/\ (PollErrorStep /\ slept'[1].why = "reconnect") =>
              slept'[1].ms = BackoffDelay(hist'.consec)
       /\ reconnect_backoff' <= MaxBackoff
       /\ ReceiptAfterErrors =>
              (reconnect_attempts' = 0 /\ reconnect_backoff' = InitialBackoff)]_vars

\* C9 amended: the k-th consecutive poll error since the last received message
\* or the last cooldown, k = 1..15, is followed by a reconnect delay of
\* min(10, 0.5 * 2^(k-1)) s; the delay never exceeds 10 s; a received message
\* resets the counter and the delay.
C9_BackoffWithinCycle ==
    [][/\ (PollErrorStep /\ PlaceInCycle(hist'.consec) <= max_reconnect_attempts) =>
              /\ slept' = Sleep("reconnect", BackoffDelay(PlaceInCycle(hist'.consec)))
              /\ pc' = "reconnect"
       /\ reconnect_backoff' <= MaxBackoff
       /\ ReceiptAfterErrors =>
              (reconnect_attempts' = 0 /\ reconnect_backoff' = InitialBackoff)]_vars

C9_Witness ==
    /\ pc = "reconnect"
    /\ hist.consec = 6
    /\ slept = Sleep("reconnect", MaxBackoff)
    /\ reconnect_backoff = MaxBackoff

\* C10: with 15 reconnect attempts counted, the next poll error makes consume
\* sleep 30 s without reconnecting, reset the counter to 0 and the delay to
\* 0.5 s and poll again; the counter stays within 0..15.
C10_Cooldown ==
    /\ [](reconnect_attempts \in 0..max_reconnect_attempts)
    /\ [][(PollErrorStep /\ reconnect_attempts = max_reconnect_attempts) =>
            /\ slept' = Sleep("cooldown", CooldownSleep)
            /\ consumer' = consumer
            /\ reconnect_attempts' = 0
            /\ reconnect_backoff' = InitialBackoff
            /\ pc' = "poll"]_vars

C10_Witness ==
    /\ slept = Sleep("cooldown", CooldownSleep)
    /\ hist.consec = max_reconnect_attempts + 1
    /\ reconnect_attempts = 0
    /\ reconnect_backoff = InitialBackoff
    /\ pc = "poll"

----------------------------------------------------------------------------
(* More claims about save_processed_message, checked under SpecSave *)

InstructorRows(db, instructor) == {r \in db.instructors : r.name = instructor.name}

\* The latest call saved, no statement failing, an event of which the store
\* held neither the instructor, nor the course, nor the traceId.
FirstSaveOfAll ==
    /\ last # NoValue
    /\ last[1].failAt = 0
    /\ ~TraceExists(last[1].before, last[1].message.traceId)
    /\ CourseRows(last[1].before, last[1].message.course) = {}
    /\ InstructorRows(last[1].before, last[1].message.instructor) = {}

\* C13: one successful save of an event with r ratings and c comments, none of
\* whose instructor, course and traceId the store held, adds exactly 1
\* instructor row, 1 course row, 1 association row of the two, r rating rows,
\* c comment rows and 1 processed_traces row of the traceId, whose status is
\* "success" when the event carries no error; into an empty store these are
\* all the rows of the store.
C13_FirstSaveRowCounts ==
    FirstSaveOfAll =>
        LET m  == last[1].message
            b  == last[1].before
            cr == CourseRows(store, m.course)
            ir == InstructorRows(store, m.instructor)
        IN  /\ last[1].result = TRUE
            /\ Cardinality(ir) = 1
            /\ Cardinality(store.instructors) = Cardinality(b.instructors) + 1
            /\ Cardinality(cr) = 1
            /\ Cardinality(store.courses) = Cardinality(b.courses) + 1
            /\ store.course_instructors \ b.course_instructors =
                  {[course_id |-> c.id, instructor_id |-> i.id] : c \in cr, i \in ir}
            /\ Cardinality(store.course_instructors) = Cardinality(b.course_instructors) + 1
            /\ Len(store.ratings) = Len(b.ratings) + Len(m.ratings)
            /\ Len(store.comments) = Len(b.comments) + Len(m.comments)
            /\ Cardinality(TraceRows(store, m.traceId)) = 1
            /\ Cardinality(store.processed_traces) = Cardinality(b.processed_traces) + 1
            /\ m.error = NoValue =>
                  \A r \in TraceRows(store, m.traceId) : r.status = "success"
            /\ b = EmptyStore =>
                  /\ Cardinality(store.instructors) = 1
                  /\ Cardinality(store.courses) = 1
                  /\ Cardinality(store.course_instructors) = 1
                  /\ Len(store.ratings) = Len(m.ratings)
                  /\ Len(store.comments) = Len(m.comments)
                  /\ Cardinality(store.processed_traces) = 1

\* The example: 2 ratings, 1 comment, no error, into an empty store.
C13_Witness ==
    /\ FirstSaveOfAll
    /\ last[1].before = EmptyStore
    /\ last[1].message.error = NoValue
    /\ Len(store.ratings) = MaxRatings
    /\ Len(store.comments) = MaxComments
    /\ \E r \in store.processed_traces : r.status = "success"

----------------------------------------------------------------------------
(* More claims about consume, checked under Spec *)

\* The message at hand is a decoded event whose traceId the store recorded
\* before it was received, and which the dedup set did not hold.
Redelivered == hist.kind = "decoded" /\ hist.in_store /\ ~hist.was_processed

\* C14: an event whose traceId the store already records, redelivered while
\* the dedup set lacks the id, is handed to the handler; the save returns True
\* at the first attempt (no statement being failed by the environment) and no
\* attempt changes a row of the store; on the success the id joins the dedup
\* set and the commit of the offset follows.
C14_RedeliveredIsNoOp ==
    /\ [](Redelivered =>
            /\ ~hist.done => pc \in {"attempt", "commit", "commit_exc"}
            /\ (pc = "attempt" /\ hist.handler_calls = 0) =>
                  LET r == process_message(store, trace_msg[1], 0, FALSE)
                  IN  ~r.raised /\ r.result = TRUE /\ r.db = store
            /\ (hist.done \/ pc # "attempt") => hist.handler_calls >= 1
            /\ hist.successes = 1 => hist.trace_id \in processed_trace_ids
            /\ hist.done => hist.commit_calls >= 1
            /\ (hist.done /\ hist.successes = 1 /\ hist.commit_calls = 1) =>
                  hist.reported = "success")
    /\ [][(hist'.kind = "decoded" /\ hist'.in_store) =>
            /\ store' = store
            /\ hist'.successes > hist.successes => pc' = "commit"]_vars

\* After a restart whose seed lacked the id, the first attempt for a recorded
\* event has succeeded and its offset has been committed.
C14_Witness ==
    /\ Redelivered
    /\ hist.handler_calls = 1
    /\ hist.successes = 1
    /\ hist.done
    /\ hist.reported = "success"
    /\ hist.trace_id \in processed_trace_ids
    /\ ingested[hist.trace_id] # NoValue

\* The consumer has been closed and recreated under the exponential delay,
\* or the cooldown has been taken in its place.
BackingOffStep ==
    \/ /\ pc' = "reconnect"
       /\ reconnect_attempts' = reconnect_attempts + 1
       /\ slept' = Sleep("reconnect", reconnect_backoff)
    \/ /\ slept' = Sleep("cooldown", CooldownSleep)
       /\ reconnect_attempts' = 0

\* C15: every poll error other than end of partition, reported on the message
\* or raised by poll, takes the backing-off path (delay, close and recreate);
\* an empty poll and an end-of-partition event cause no reconnect, no sleep
\* and no change of the attempt counter or the delay.
C15_EveryPollErrorBacksOff ==
    [][/\ (PollError \/ PollRaises) => BackingOffStep
       /\ PollNothing => /\ pc' = "poll"
                         /\ slept' = slept
                         /\ consumer' = consumer
                         /\ reconnect_attempts' = reconnect_attempts
                         /\ reconnect_backoff' = reconnect_backoff]_vars

\* The part of C15 that holds: errors reported on the message back off, empty
\* polls and end-of-partition events change nothing.
C15_ReportedErrorsBackOff ==
    [][/\ PollError => BackingOffStep
       /\ PollNothing => /\ pc' = "poll"
                         /\ slept' = slept
                         /\ consumer' = consumer
                         /\ reconnect_attempts' = reconnect_attempts
                         /\ reconnect_backoff' = reconnect_backoff]_vars

----------------------------------------------------------------------------
(* Shutdown: app.py main calls KafkaConsumer.close from the main thread, any  *)
(* time after it has started the thread that runs consume.  The topic         *)
(* delivers one event, tombstones and texts that are no JSON                  *)

\* close, first half: self.running = False
CloseStop ==
    /\ pc \notin {"down", "done"}
    /\ close_pc = "none"
    /\ running' = FALSE
    /\ close_pc' = "stopped"
    /\ UNCHANGED <<pc, consumer, processed_trace_ids, reconnect_attempts,
                   reconnect_backoff, msg, trace_msg, retry, process_error, slept, hist>>
    /\ UNCHANGED storeVars
    /\ UNCHANGED <<healthVars, proberVars, mainVars>>

\* close, second half: if self.consumer: self.consumer.close()
CloseConsumer ==
    /\ close_pc = "stopped"
    /\ consumer' = IF consumer = "none" THEN "none" ELSE "closed"
    /\ close_pc' = "closed"
    /\ UNCHANGED <<pc, running, processed_trace_ids, reconnect_attempts,
                   reconnect_backoff, msg, trace_msg, retry, process_error, slept, hist>>
    /\ UNCHANGED storeVars
    /\ UNCHANGED <<healthVars, proberVars, mainVars>>

\* app.py main: consumer_thread.join(timeout=30) returns: the thread has
\* ended, or the 30 seconds have elapsed.
JoinConsumerThread ==
    /\ close_pc = "closed"
    /\ close_pc' = IF pc = "done" THEN "joined" ELSE "timed_out"
    /\ UNCHANGED loopVars
    /\ UNCHANGED storeVars
    /\ UNCHANGED <<healthVars, proberVars, mainVars>>

\* app.py main: db_client.close()
CloseDb ==
    /\ close_pc \in {"joined", "timed_out"}
    /\ conn_txn' = "closed"
    /\ close_pc' = "db_closed"
    /\ UNCHANGED <<db_up, saving, probe_pc, db_healthy, probe_slept, tc_running>>
    /\ UNCHANGED loopVars
    /\ UNCHANGED storeVars
    /\ UNCHANGED <<healthVars, mainVars>>

\* consume: the loop condition "while self.running" is false, consume returns.
ConsumeExit ==
    /\ pc = "poll"
    /\ ~running
    /\ pc' = "done"
    /\ UNCHANGED <<running, consumer, processed_trace_ids, reconnect_attempts,
                   reconnect_backoff, msg, trace_msg, retry, process_error, slept, hist>>
    /\ UNCHANGED storeVars
    /\ UNCHANGED serviceVars

\* msg.value() on a topic that carries one event.
OneEventValues == {NoValue, Some(NotJsonPayload), Some(JsonPayload(JsonOf(TheEvent)))}

ReceiveOneEvent == ReceiveFrom(OneEventValues)

\* The steps of the thread that runs consume, the calls of the handler aside.
ConsumeThread ==
    \/ ConsumeStart
    \/ PollNothing
    \/ PollErrorOften
    \/ Reconnect
    \/ PollRaises
    \/ ReceiveOneEvent
    \/ CommitProcessed
    \/ CommitDuplicate
    \/ CommitInHandler
    \/ ConsumeExit

NextShutdown ==
    \/ Startup
    \/ ConsumeStart
    \/ PollNothing
    \/ PollErrorOften
    \/ Reconnect
    \/ PollRaises
    \/ ReceiveOneEvent
    \/ Attempt
    \/ CommitProcessed
    \/ CommitDuplicate
    \/ CommitInHandler
    \/ ConsumeExit
    \/ CloseStop
    \/ CloseConsumer
    \/ JoinConsumerThread
    \/ CloseDb

SpecShutdown == Init /\ [][NextShutdown]_vars

\* The thread that runs consume is scheduled again and again, and every call
\* of the handler returns or raises: the retry loop, which is bounded, ends.
SpecShutdownFair ==
    SpecShutdown /\ WF_vars(ConsumeThread) /\ []<>(pc # "attempt")

----------------------------------------------------------------------------
(* Shutdown while consume is in _reconnect, statement by statement.  A       *)
(* consumer that self.consumer no longer names was closed before it was      *)
(* replaced, so the variable consumer tells whether a consumer created by    *)
(* this KafkaConsumer is open.  The close of a consumer that is closed       *)
(* already, or that the other thread is closing, returns or raises           *)
(* RuntimeError, depending on the build of confluent_kafka.                  *)

\* _reconnect: if self.consumer: self.consumer.close()
ReconnectCloseOld ==
    /\ pc = "reconnect"
    /\ \/ /\ consumer' = "closed"
          /\ pc' = "reconnect_create"
          /\ slept' = slept
       \/ /\ consumer = "closed"
          /\ consumer' = consumer
          /\ pc' = "poll"
          /\ slept' = Sleep("exception", ExceptionSleep)
    /\ UNCHANGED <<running, processed_trace_ids, reconnect_attempts, reconnect_backoff,
                   msg, trace_msg, retry, process_error, hist>>
    /\ UNCHANGED storeVars
    /\ UNCHANGED serviceVars

\* _reconnect: self.consumer = self._create_consumer(); when the creation
\* raises, the exception leaves the iteration through the outer handler.
ReconnectCreateNew ==
    /\ pc = "reconnect_create"
    /\ \/ /\ consumer' = "open"
          /\ slept' = slept
       \/ /\ consumer' = consumer
          /\ slept' = Sleep("exception", ExceptionSleep)
    /\ pc' = "poll"
    /\ UNCHANGED <<running, processed_trace_ids, reconnect_attempts, reconnect_backoff,
                   msg, trace_msg, retry, process_error, hist>>
    /\ UNCHANGED storeVars
    /\ UNCHANGED serviceVars

\* close, second half, on a consumer that is closed already, in a build where
\* this raises: main logs "Error during shutdown" and calls sys.exit(1).
CloseConsumerRaises ==
    /\ close_pc = "stopped"
    /\ consumer = "closed"
    /\ close_pc' = "raised"
    /\ UNCHANGED loopVars
    /\ UNCHANGED storeVars
    /\ UNCHANGED <<healthVars, proberVars, mainVars>>

NextCloseRace ==
    \/ Startup
    \/ ConsumeStart
    \/ PollNothing
    \/ PollErrorOften
    \/ ReconnectCloseOld
    \/ ReconnectCreateNew
    \/ PollRaises
    \/ ReceiveNoEvent
    \/ CommitInHandler
    \/ ConsumeExit
    \/ CloseStop
    \/ CloseConsumer
    \/ CloseConsumerRaises
    \/ JoinConsumerThread

SpecCloseRace == Init /\ [][NextCloseRace]_vars

----------------------------------------------------------------------------
(* Claims about shutdown and the broker flag *)

CloseRequested == close_pc # "none"

\* C16: consume returns only after close has been requested, and once close
\* has been requested consume eventually returns, whatever state the thread
\* is in.
C16_ReturnsOnlyAndSurelyOnClose ==
    /\ [](pc = "done" => CloseRequested)
    /\ CloseRequested ~> pc = "done"

\* The part of C16 that holds: a close that finds the thread inside the loop
\* (past "self.running = True") is followed by the return of consume.
C16_ReturnsWhenClosedInLoop ==
    /\ [](pc = "done" => CloseRequested)
    /\ (CloseRequested /\ ~running /\ pc # "start") ~> pc = "done"

\* C20: once set, the broker flag stays True through poll errors, reconnects,
\* failed reconnects, cooldowns and close.
C20_KafkaFlagStaysTrue ==
    /\ [](pc # "down" => is_kafka_healthy)
    /\ [][is_kafka_healthy => is_kafka_healthy']_vars

\* The flag is True although the consumer has been through a cooldown and a
\* failed reconnect, and has been closed.
C20_Witness ==
    /\ is_kafka_healthy
    /\ hist.consec > max_reconnect_attempts + 1
    /\ consumer = "closed"
    /\ close_pc = "closed"
    /\ pc = "done"

----------------------------------------------------------------------------
(* services/healthcheck.py: the probe server *)

\* The paths a client requests.
Paths == {"/healthz/live", "/healthz/ready", "/"}

\* A status list that names every dependency, whatever its flag.
ReadinessStatusNamesAll(ready, db, kafka) ==
    <<"Application not ready", "Database not healthy", "Kafka not healthy">>

\* do_GET, readiness branch: the list status, appended to in this order.
ReadinessStatus(ready, db, kafka) ==
    (IF ~ready THEN <<"Application not ready">> ELSE <<>>)
    \o (IF ~db THEN <<"Database not healthy">> ELSE <<>>)
    \o (IF ~kafka THEN <<"Kafka not healthy">> ELSE <<>>)

\* A liveness branch that answers like the readiness branch.
do_GET_LiveAsReady(path, ready, db, kafka) ==
    IF path \in {"/healthz/live", "/healthz/ready"}
    THEN IF ready /\ db /\ kafka
         THEN [status |-> 200, text |-> "Ready", names |-> <<>>]
         ELSE [status |-> 503, text |-> "Not Ready",
               names |-> ReadinessStatus(ready, db, kafka)]
    ELSE [status |-> 404, text |-> "Not Found", names |-> <<>>]

\* HealthCheckHandler.do_GET: the status code and the body, the body being
\* text, or text ": " and the names joined by ", ".
do_GET(path, ready, db, kafka) ==
    IF path = "/healthz/live"
    THEN [status |-> 200, text |-> "OK", names |-> <<>>]
    ELSE IF path = "/healthz/ready"
    THEN IF ready /\ db /\ kafka
         THEN [status |-> 200, text |-> "Ready", names |-> <<>>]
         ELSE [status |-> 503, text |-> "Not Ready",
               names |-> ReadinessStatus(ready, db, kafka)]
    ELSE [status |-> 404, text |-> "Not Found", names |-> <<>>]

\* HealthCheckServer.start
ServerStart ==
    /\ ~is_running
    /\ is_running' = TRUE
    /\ UNCHANGED <<is_ready, is_db_healthy, is_kafka_healthy, response>>
    /\ UNCHANGED <<close_pc, proberVars, mainVars, storeVars, loopVars>>

\* HealthCheckServer.stop
ServerStop ==
    /\ is_running
    /\ is_running' = FALSE
    /\ UNCHANGED <<is_ready, is_db_healthy, is_kafka_healthy, response>>
    /\ UNCHANGED <<close_pc, proberVars, mainVars, storeVars, loopVars>>

\* HealthCheckServer.set_ready
set_ready(v) ==
    /\ is_ready' = v
    /\ UNCHANGED <<is_db_healthy, is_kafka_healthy, is_running, response>>

\* HealthCheckServer.set_db_health
set_db_health(v) ==
    /\ is_db_healthy' = v
    /\ UNCHANGED <<is_ready, is_kafka_healthy, is_running, response>>

\* HealthCheckServer.set_kafka_health
set_kafka_health(v) ==
    /\ is_kafka_healthy' = v
    /\ UNCHANGED <<is_ready, is_db_healthy, is_running, response>>

\* Some thread of the process calls a setter.
SetFlag ==
    /\ \E v \in BOOLEAN : set_ready(v) \/ set_db_health(v) \/ set_kafka_health(v)
    /\ UNCHANGED <<close_pc, proberVars, mainVars, storeVars, loopVars>>

\* The server thread answers a GET; the response keeps, as history, the flags
\* it was computed from.
Get ==
    /\ is_running
    /\ \E path \in Paths :
        LET r == do_GET(path, is_ready, is_db_healthy, is_kafka_healthy)
        IN  response' = Some([path |-> path,
                              flags |-> [is_ready |-> is_ready,
                                         is_db_healthy |-> is_db_healthy,
                                         is_kafka_healthy |-> is_kafka_healthy],
                              status |-> r.status, text |-> r.text, names |-> r.names])
    /\ UNCHANGED <<is_ready, is_db_healthy, is_kafka_healthy, is_running>>
    /\ UNCHANGED <<close_pc, proberVars, mainVars, storeVars, loopVars>>

NextProbeSurface ==
    \/ ServerStart
    \/ ServerStop
    \/ SetFlag
    \/ Get

SpecProbeSurface == Init /\ [][NextProbeSurface]_vars

----------------------------------------------------------------------------
(* services/db_service.py: the connection PostgresClient.conn, which main     *)
(* hands to the TraceConsumer (app.py), so that the thread running            *)
(* process_message and the thread running health_check_worker use the same    *)
(* client.  conn_txn is "idle", "open" (a transaction is in progress: the     *)
(* connection is not in autocommit mode, so any statement begins one),        *)
(* "aborted" (a statement of the transaction has failed: the server rejects   *)
(* every statement until the rollback), "broken" (the server has dropped the  *)
(* connection and the client has not yet noticed) or "closed"                 *)

health_check_interval == 60

\* cursor.execute succeeds: the server is reachable and accepts statements.
ExecOk(txn, up) == up /\ txn \in {"idle", "open"}

\* The connection after cursor.execute("SELECT 1"): a failed operation on a
\* lost connection leaves it closed (conn.closed is nonzero).
AfterExec(txn, up) ==
    IF ~up THEN "closed"
    ELSE IF txn \in {"idle", "open"} THEN "open"
    ELSE IF txn = "broken" THEN "closed"
    ELSE txn

\* An _ensure_connection whose handler gives up instead of reconnecting.
ensure_connection_no_reconnect(txn, up) ==
    LET first == IF txn = "closed" THEN (IF up THEN "idle" ELSE "failed") ELSE txn
        ok    == first # "failed" /\ ExecOk(first, up)
        after == IF first = "failed" THEN "closed" ELSE AfterExec(first, up)
    IN  IF ok THEN [raised |-> FALSE, txn |-> "open", probe |-> "ok"]
        ELSE [raised |-> TRUE, txn |-> after,
              probe |-> IF first = "failed" THEN "unconnected"
                        ELSE IF after = "closed" THEN "lost" ELSE "rejected"]

\* _ensure_connection: _connect when the connection is closed, then SELECT 1;
\* when either raises, _connect once more, which connects only a closed
\* connection and raises when the server is unreachable.  probe tells what
\* the SELECT 1 found: "ok", "lost" (it raised and the connection is gone),
\* "rejected" (it raised on a live connection: the transaction is aborted),
\* or "unconnected" (no connection could be made for it).
ensure_connection(txn, up) ==
    LET first == IF txn = "closed" THEN (IF up THEN "idle" ELSE "failed") ELSE txn
        ok    == first # "failed" /\ ExecOk(first, up)
        after == IF first = "failed" THEN "closed" ELSE AfterExec(first, up)
        probe == IF first = "failed" THEN "unconnected"
                 ELSE IF after = "closed" THEN "lost" ELSE "rejected"
    IN  IF ok THEN [raised |-> FALSE, txn |-> "open", probe |-> "ok"]
        ELSE IF after = "closed"
        THEN IF up THEN [raised |-> FALSE, txn |-> "idle", probe |-> probe]
                   ELSE [raised |-> TRUE, txn |-> "closed", probe |-> probe]
        ELSE [raised |-> FALSE, txn |-> after, probe |-> probe]

\* save_processed_message, up to the entry of the transaction context; when
\* _ensure_connection raises, the call returns False.
SaveEnsure ==
    /\ saving = NoValue
    /\ \E message \in {TheEvent} :
        LET e == ensure_connection(conn_txn, db_up)
        IN  /\ conn_txn' = e.txn
            /\ saving' = IF e.raised THEN NoValue
                         ELSE Some([message |-> message, failAt |-> 0,
                                    phase |-> "begun", probe |-> e.probe])
            /\ last' = IF e.raised
                       THEN Some([message |-> message, failAt |-> 1, result |-> FALSE,
                                  before |-> store, probe |-> e.probe])
                       ELSE last
    /\ UNCHANGED <<store, ingested>>
    /\ UNCHANGED <<db_up, probe_pc, db_healthy, probe_slept, tc_running>>
    /\ UNCHANGED <<loopVars, healthVars, close_pc, mainVars>>

\* The statements of the transaction: all are accepted, or the server rejects
\* one of them (the failAt-th of the call) and the transaction is aborted.
SaveStatements ==
    /\ saving # NoValue
    /\ saving[1].phase = "begun"
    /\ ExecOk(conn_txn, db_up)
    /\ \E failAt \in {0} \cup (2..(Len(SaveSteps(store, saving[1].message)) - 1)) :
        /\ saving' = Some([saving[1] EXCEPT !.failAt = failAt,
                                            !.phase = IF failAt = 0 THEN "written"
                                                      ELSE "failed"])
        /\ conn_txn' = IF failAt = 0 THEN "open" ELSE "aborted"
    /\ UNCHANGED <<db_up, probe_pc, db_healthy, probe_slept, tc_running>>
    /\ UNCHANGED <<storeVars, loopVars, healthVars, close_pc, mainVars>>

\* The first statement of the transaction raises: the connection is lost, the
\* server unreachable or the transaction already aborted.
SaveStatementsRejected ==
    /\ saving # NoValue
    /\ saving[1].phase = "begun"
    /\ ~ExecOk(conn_txn, db_up)
    /\ saving' = Some([saving[1] EXCEPT !.failAt = 2, !.phase = "failed"])
    /\ conn_txn' = AfterExec(conn_txn, db_up)
    /\ UNCHANGED <<db_up, probe_pc, db_healthy, probe_slept, tc_running>>
    /\ UNCHANGED <<storeVars, loopVars, healthVars, close_pc, mainVars>>

\* Leaving the transaction context: commit, or rollback after an exception;
\* the call returns True or False.  A commit the connection cannot carry out
\* raises, and nothing is committed.
SaveExit ==
    /\ saving # NoValue
    /\ saving[1].phase \in {"written", "failed"}
    /\ LET steps  == SaveSteps(store, saving[1].message)
           failAt == IF saving[1].phase = "written" /\ ~ExecOk(conn_txn, db_up)
                     THEN Len(steps) ELSE saving[1].failAt
           r      == save_processed_message(store, saving[1].message, failAt)
       IN  /\ store' = r.db
           /\ last' = Some([message |-> saving[1].message, failAt |-> failAt,
                            result |-> r.result, before |-> store,
                            probe |-> saving[1].probe])
           /\ ingested' = IF r.result /\ ~TraceExists(store, saving[1].message.traceId)
                          THEN [ingested EXCEPT ![saving[1].message.traceId] =
                                                    Some(saving[1].message)]
                          ELSE ingested
    /\ conn_txn' = IF db_up /\ conn_txn \in {"idle", "open", "aborted"} THEN "idle"
                   ELSE "closed"
    /\ saving' = NoValue
    /\ UNCHANGED <<db_up, probe_pc, db_healthy, probe_slept, tc_running>>
    /\ UNCHANGED <<loopVars, healthVars, close_pc, mainVars>>

----------------------------------------------------------------------------
(* consumer.py: the periodic health prober *)

\* start_health_check_thread
ProbeStart ==
    /\ probe_pc = "none"
    /\ tc_running' = TRUE
    /\ probe_pc' = "ping"
    /\ UNCHANGED <<db_up, conn_txn, saving, db_healthy, probe_slept>>
    /\ UNCHANGED <<storeVars, loopVars, healthVars, close_pc, mainVars>>

\* health_check_worker calls test_connection: _ensure_connection.  When it
\* raises, test_connection returns False.
ProbeEnsure ==
    /\ probe_pc = "ping"
    /\ tc_running
    /\ LET e == ensure_connection(conn_txn, db_up)
       IN  /\ conn_txn' = e.txn
           /\ probe_pc' = IF e.raised THEN "set" ELSE "select"
           /\ db_healthy' = IF e.raised THEN FALSE ELSE db_healthy
    /\ UNCHANGED <<db_up, saving, probe_slept, tc_running>>
    /\ UNCHANGED <<storeVars, loopVars, healthVars, close_pc, mainVars>>

\* test_connection: SELECT 1 on self.conn; True, or False when it raises.
ProbeSelect ==
    /\ probe_pc = "select"
    /\ db_healthy' = ExecOk(conn_txn, db_up)
    /\ conn_txn' = AfterExec(conn_txn, db_up)
    /\ probe_pc' = "set"
    /\ UNCHANGED <<db_up, saving, probe_slept, tc_running>>
    /\ UNCHANGED <<storeVars, loopVars, healthVars, close_pc, mainVars>>

\* A worker that reports the outcome of its ping as the readiness of the
\* application as well.
ProbeSetReportsReady ==
    /\ probe_pc = "set"
    /\ is_db_healthy' = db_healthy
    /\ is_ready' = db_healthy
    /\ UNCHANGED <<is_kafka_healthy, is_running, response>>
    /\ probe_slept' = health_check_interval
    /\ probe_pc' = "ping"
    /\ writers' = [writers EXCEPT !.is_db_healthy = @ \cup {"health_check_worker"},
                                  !.is_ready = @ \cup {"health_check_worker"}]
    /\ UNCHANGED <<db_up, conn_txn, saving, db_healthy, tc_running>>
    /\ UNCHANGED <<storeVars, loopVars, close_pc, main_pc, main_done, envVars>>

\* health_server.set_db_health(db_healthy); time.sleep(health_check_interval).
\* test_connection raises nothing, so the handler of the worker (which sleeps
\* max(5, health_check_interval // 2)) is not entered by a failed ping.
ProbeSet ==
    /\ probe_pc = "set"
    /\ set_db_health(db_healthy)
    /\ probe_slept' = health_check_interval
    /\ probe_pc' = "ping"
    /\ writers' = [writers EXCEPT !.is_db_healthy = @ \cup {"health_check_worker"}]
    /\ UNCHANGED <<db_up, conn_txn, saving, db_healthy, tc_running>>
    /\ UNCHANGED <<storeVars, loopVars, close_pc, main_pc, main_done, envVars>>

\* stop_health_check_thread
StopHealthCheck ==
    /\ probe_pc # "none"
    /\ tc_running
    /\ tc_running' = FALSE
    /\ UNCHANGED <<db_up, conn_txn, saving, probe_pc, db_healthy, probe_slept>>
    /\ UNCHANGED <<storeVars, loopVars, healthVars, close_pc, mainVars>>

\* health_check_worker: "while self.running" is false, the worker returns.
ProbeExit ==
    /\ probe_pc = "ping"
    /\ ~tc_running
    /\ probe_pc' = "done"
    /\ UNCHANGED <<db_up, conn_txn, saving, db_healthy, probe_slept, tc_running>>
    /\ UNCHANGED <<storeVars, loopVars, healthVars, close_pc, mainVars>>

\* The environment: the PostgreSQL server becomes unreachable, or reachable.
StoreDown ==
    /\ db_up
    /\ db_up' = FALSE
    /\ UNCHANGED <<conn_txn, saving, probe_pc, db_healthy, probe_slept, tc_running>>
    /\ UNCHANGED <<storeVars, loopVars, healthVars, close_pc, mainVars>>

StoreUp ==
    /\ ~db_up
    /\ db_up' = TRUE
    /\ UNCHANGED <<conn_txn, saving, probe_pc, db_healthy, probe_slept, tc_running>>
    /\ UNCHANGED <<storeVars, loopVars, healthVars, close_pc, mainVars>>

\* The environment: the server drops the connection (a restart, an idle
\* timeout); the client learns of it at its next statement.
ConnectionLost ==
    /\ conn_txn \in {"idle", "open", "aborted"}
    /\ conn_txn' = "broken"
    /\ UNCHANGED <<db_up, saving, probe_pc, db_healthy, probe_slept, tc_running>>
    /\ UNCHANGED <<storeVars, loopVars, healthVars, close_pc, mainVars>>

\* Calls of save_processed_message, and the prober beside them, on a
\* connection that can be lost and a store that comes and goes.
NextConnection ==
    \/ SaveEnsure
    \/ SaveStatements
    \/ SaveStatementsRejected
    \/ SaveExit
    \/ ProbeStart
    \/ ProbeEnsure
    \/ ProbeSelect
    \/ ProbeSet
    \/ StopHealthCheck
    \/ ProbeExit
    \/ StoreDown
    \/ StoreUp
    \/ ConnectionLost

SpecConnection == Init /\ [][NextConnection]_vars

\* The prober and the ingestion of events, on a store that stays reachable.
NextProber ==
    \/ SaveEnsure
    \/ SaveStatements
    \/ SaveExit
    \/ ProbeStart
    \/ ProbeEnsure
    \/ ProbeSelect
    \/ ProbeSet
    \/ StopHealthCheck
    \/ ProbeExit

SpecProber == Init /\ [][NextProber]_vars

\* The prober and the probe server, on a store that comes and goes.
NextProberOutage ==
    \/ ProbeStart
    \/ ProbeEnsure
    \/ ProbeSelect
    \/ ProbeSet
    \/ StopHealthCheck
    \/ ProbeExit
    \/ StoreDown
    \/ StoreUp
    \/ ServerStart
    \/ Get

SpecProberOutage == Init /\ [][NextProberOutage]_vars

----------------------------------------------------------------------------
(* app.py: the start-up of main, step by step, with the prober it starts     *)
(* and the probe server answering meanwhile.  The configuration is valid.    *)
(* logger.fatal ends the process; were it to return, the names bound in the  *)
(* failed step would be unbound and main would end with a NameError before   *)
(* it sets the readiness flag.                                               *)

WrittenBy(thread, flags) ==
    [f \in DOMAIN writers |-> IF f \in flags THEN writers[f] \cup {thread} ELSE writers[f]]

\* The health server is started (start logs and swallows a failure to bind)
\* and the three flags are set to False.
MainHealthServer ==
    /\ main_pc = "server"
    /\ \E started \in BOOLEAN : is_running' = started
    /\ is_ready' = FALSE
    /\ is_db_healthy' = FALSE
    /\ is_kafka_healthy' = FALSE
    /\ writers' = WrittenBy("main", {"is_ready", "is_db_healthy", "is_kafka_healthy"})
    /\ main_pc' = "db_connect"
    /\ UNCHANGED <<main_done, response, close_pc, proberVars, storeVars, loopVars>>
    /\ UNCHANGED envVars

\* PostgresClient(...): __init__ connects; when it raises, logger.fatal.
MainDbConnect ==
    /\ main_pc = "db_connect"
    /\ IF db_up
       THEN /\ conn_txn' = "idle"
            /\ main_done' = Append(main_done, "db")
            /\ main_pc' = "db_test"
       ELSE /\ conn_txn' = "closed"
            /\ main_done' = main_done
            /\ main_pc' = "exit"
    /\ UNCHANGED <<db_up, saving, probe_pc, db_healthy, probe_slept, tc_running>>
    /\ UNCHANGED <<writers, healthVars, close_pc, storeVars, loopVars>>
    /\ UNCHANGED envVars

\* if db_client.test_connection(): set_db_health(True) else: set_db_health(False)
MainDbTest ==
    /\ main_pc = "db_test"
    /\ LET e  == ensure_connection(conn_txn, db_up)
           ok == ~e.raised /\ ExecOk(e.txn, db_up)
       IN  /\ conn_txn' = IF e.raised THEN e.txn ELSE AfterExec(e.txn, db_up)
           /\ set_db_health(ok)
    /\ writers' = WrittenBy("main", {"is_db_healthy"})
    /\ main_pc' = "seed"
    /\ UNCHANGED <<db_up, saving, probe_pc, db_healthy, probe_slept, tc_running>>
    /\ UNCHANGED <<main_done, close_pc, storeVars, loopVars>>
    /\ UNCHANGED envVars

\* processed_trace_ids = db_client.get_processed_trace_ids(): the rows the
\* query returns (and the transaction commits), or the empty list when
\* _ensure_connection or the query raises; the list is kept for the
\* KafkaConsumer either way.
MainSeed ==
    /\ main_pc = "seed"
    /\ LET e  == ensure_connection(conn_txn, db_up)
           ok == ~e.raised /\ ExecOk(e.txn, db_up)
       IN  \E seed \in get_processed_trace_ids(store, SeedLimit), loaded \in BOOLEAN :
               /\ loaded => ok
               /\ ~loaded => seed = {}
               /\ ~ok => ~loaded
               /\ processed_trace_ids' = seed
               /\ conn_txn' = IF ok THEN "idle"
                              ELSE IF e.raised THEN e.txn ELSE AfterExec(e.txn, db_up)
               /\ main_done' = IF loaded THEN Append(main_done, "seed") ELSE main_done
    /\ main_pc' = "prober"
    /\ UNCHANGED <<pc, running, consumer, reconnect_attempts, reconnect_backoff, msg,
                   trace_msg, retry, process_error, slept, hist>>
    /\ UNCHANGED <<db_up, saving, probe_pc, db_healthy, probe_slept, tc_running>>
    /\ UNCHANGED <<writers, healthVars, close_pc, storeVars>>
    /\ UNCHANGED envVars

\* TraceConsumer(...) and start_health_check_thread: the thread is started, or
\* the start raises (after self.running = True) and main logs the error and
\* goes on.
MainProberStart ==
    /\ main_pc = "prober"
    /\ tc_running' = TRUE
    /\ \/ /\ probe_pc' = "ping"
          /\ main_done' = Append(main_done, "prober")
       \/ /\ probe_pc' = probe_pc
          /\ main_done' = main_done
    /\ main_pc' = "kafka"
    /\ UNCHANGED <<db_up, conn_txn, saving, db_healthy, probe_slept>>
    /\ UNCHANGED <<writers, healthVars, close_pc, storeVars, loopVars>>
    /\ UNCHANGED envVars

\* KafkaConsumer(...): the consumer is created and subscribed and
\* set_kafka_health(True) follows, or the creation raises: logger.fatal.
MainKafka ==
    /\ main_pc = "kafka"
    /\ \/ /\ consumer' = "open"
          /\ running' = FALSE
          /\ set_kafka_health(TRUE)
          /\ writers' = WrittenBy("main", {"is_kafka_healthy"})
          /\ main_done' = Append(main_done, "kafka")
          /\ main_pc' = "thread"
       \/ /\ main_pc' = "exit"
          /\ UNCHANGED <<consumer, running, writers, main_done, healthVars>>
    /\ UNCHANGED <<pc, processed_trace_ids, reconnect_attempts, reconnect_backoff, msg,
                   trace_msg, retry, process_error, slept, hist>>
    /\ UNCHANGED <<close_pc, proberVars, storeVars>>
    /\ UNCHANGED envVars

\* consumer_thread.start()
MainThreadStart ==
    /\ main_pc = "thread"
    /\ pc' = "start"
    /\ main_done' = Append(main_done, "thread")
    /\ main_pc' = "ready"
    /\ UNCHANGED <<running, consumer, processed_trace_ids, reconnect_attempts,
                   reconnect_backoff, msg, trace_msg, retry, process_error, slept, hist>>
    /\ UNCHANGED <<writers, healthVars, close_pc, proberVars, storeVars>>
    /\ UNCHANGED envVars

\* health_server.set_ready(True); main then waits for the shutdown signal.
MainReady ==
    /\ main_pc = "ready"
    /\ set_ready(TRUE)
    /\ writers' = WrittenBy("main", {"is_ready"})
    /\ main_pc' = "wait"
    /\ UNCHANGED <<main_done, close_pc, proberVars, storeVars, loopVars>>
    /\ UNCHANGED envVars

NextStartup ==
    \/ MainHealthServer
    \/ MainDbConnect
    \/ MainDbTest
    \/ MainSeed
    \/ MainProberStart
    \/ MainKafka
    \/ MainThreadStart
    \/ MainReady
    \/ ProbeEnsure
    \/ ProbeSelect
    \/ ProbeSet
    \/ StoreDown
    \/ StoreUp
    \/ Get

SpecStartup == Init /\ [][NextStartup]_vars

----------------------------------------------------------------------------
(* Claims about the probe server, checked under SpecProbeSurface *)

\* The names a 503 body must carry for the flags a response was computed from.
FalseFlagNames(f) ==
    (IF ~f.is_ready THEN {"Application not ready"} ELSE {})
    \cup (IF ~f.is_db_healthy THEN {"Database not healthy"} ELSE {})
    \cup (IF ~f.is_kafka_healthy THEN {"Kafka not healthy"} ELSE {})

AllTrue(f) == f.is_ready /\ f.is_db_healthy /\ f.is_kafka_healthy

SeqRange(q) == {q[i] : i \in 1..Len(q)}

ReadyResponse == response # NoValue /\ response[1].path = "/healthz/ready"

LiveResponse == response # NoValue /\ response[1].path = "/healthz/live"

\* C11: for every combination of the three flags, GET /healthz/ready answers
\* 200 if and only if all three are true; otherwise it answers 503 and its
\* body names each false flag once and no true flag.
C11_ReadyIffAllTrue ==
    ReadyResponse =>
        LET r == response[1]
        IN  /\ r.status = 200 <=> AllTrue(r.flags)
            /\ r.status \in {200, 503}
            /\ r.status = 200 => r.text = "Ready" /\ r.names = <<>>
            /\ r.status = 503 =>
                  /\ r.text = "Not Ready"
                  /\ SeqRange(r.names) = FalseFlagNames(r.flags)
                  /\ Len(r.names) = Cardinality(FalseFlagNames(r.flags))

\* A 503 that names exactly one false flag while the two others are true.
C11_Witness ==
    /\ ReadyResponse
    /\ response[1].status = 503
    /\ response[1].flags = [is_ready |-> TRUE, is_db_healthy |-> FALSE,
                            is_kafka_healthy |-> TRUE]
    /\ response[1].names = <<"Database not healthy">>

\* C12: GET /healthz/live answers 200 whatever the three flags are.
C12_LiveAlways200 ==
    LiveResponse => response[1].status = 200 /\ response[1].text = "OK"

\* The liveness probe answered while all three flags were false.
C12_Witness ==
    /\ LiveResponse
    /\ response[1].status = 200
    /\ response[1].flags = [is_ready |-> FALSE, is_db_healthy |-> FALSE,
                            is_kafka_healthy |-> FALSE]

----------------------------------------------------------------------------
(* Claims about the health prober *)

SaveInProgress == saving # NoValue

\* The prober executes a statement on PostgresClient.conn, or reconnects it.
ProberUsesConnection == ProbeEnsure \/ ProbeSelect

\* C17: while a save transaction is in progress, the prober executes no
\* statement on the connection the transaction uses, and does not reconnect
\* or replace it.
C17_ProberLeavesSaveConnectionAlone ==
    [][SaveInProgress => ~ProberUsesConnection]_vars

\* C18: while the store stays reachable, no processing of an event, failed or
\* not, changes is_ready or is_kafka_healthy or turns is_db_healthy from True
\* to False, whatever the interleaving with the prober.
C18_BadEventLeavesFlagsAlone ==
    [][/\ is_db_healthy => is_db_healthy'
       /\ is_ready' = is_ready
       /\ is_kafka_healthy' = is_kafka_healthy]_vars

\* max(5, self.health_check_interval // 2)
ShortInterval ==
    IF health_check_interval \div 2 > 5 THEN health_check_interval \div 2 ELSE 5

\* The prober has finished an iteration: the flag is set and the wait is over.
ProbeIterationDone == probe_pc \in {"ping", "done"} /\ probe_slept # 0

\* C19: after a failed ping the flag is False and the wait before the next
\* ping is max(5, health_check_interval / 2) seconds; after a successful one
\* the flag is True and the wait is health_check_interval; the loop ends only
\* when the prober has been stopped.
C19_FailedPingShortensWait ==
    /\ ProbeIterationDone =>
          IF db_healthy
          THEN is_db_healthy /\ probe_slept = health_check_interval
          ELSE ~is_db_healthy /\ probe_slept = ShortInterval
    /\ probe_pc = "done" => ~tc_running

\* The part of C19 that holds: the flag follows the ping, the loop ends only
\* when stopped; the wait is health_check_interval after every ping.
C19_FlagFollowsPing ==
    /\ ProbeIterationDone =>
          /\ is_db_healthy = db_healthy
          /\ probe_slept = health_check_interval
    /\ probe_pc = "done" => ~tc_running

----------------------------------------------------------------------------
(* Claims about the retry loop of consume, checked under Spec *)

\* C24: for a decoded event not in the dedup set, when the handler first
\* returns True at attempt i (1 <= i <= max_retries + 1), the handler has been
\* invoked exactly i times for the message, the loop ends there, the id is in
\* the dedup set and no error is retained: the outcome reported is success
\* although the attempts 1..i-1 failed.
C24_FirstSuccessEndsRetries ==
    /\ []((NewEvent /\ hist.successes >= 1) =>
            /\ hist.successes = 1
            /\ hist.handler_calls \in 1..(max_retries + 1)
            /\ hist.trace_id \in processed_trace_ids
            /\ hist.reported \in {"none", "success"}
            /\ pc # "attempt"
            /\ pc = "commit" =>
                  (hist.handler_calls = retry + 1 /\ process_error = NoValue)
            /\ (hist.done /\ hist.commit_calls = 1) => hist.reported = "success")
    /\ [][hist'.successes > hist.successes =>
            /\ pc = "attempt"
            /\ hist.handler_calls = retry
            /\ hist'.handler_calls = retry + 1
            /\ retry > 0 => process_error # NoValue
            /\ process_error' = NoValue
            /\ pc' = "commit"]_vars

\* The handler has returned True at the last attempt the loop makes.
C24_Witness ==
    /\ NewEvent
    /\ pc = "commit"
    /\ hist.successes = 1
    /\ hist.handler_calls = max_retries + 1
    /\ retry = max_retries
    /\ process_error = NoValue
    /\ hist.trace_id \in processed_trace_ids

----------------------------------------------------------------------------
(* Claims about the rows of the store, checked under SpecSave *)

CourseIds(db) == {c.id : c \in db.courses}

InstructorIds(db) == {i.id : i \in db.instructors}

\* The latest call has written the rows of its event.
WroteEvent ==
    /\ last # NoValue
    /\ last[1].result
    /\ ~TraceExists(last[1].before, last[1].message.traceId)

\* C26: after any sequence of successful and failed saves, every rating row,
\* comment row, association row and processed_traces row refers to a course
\* row of the store (an association row also to an instructor row), and the
\* rows a save has written carry the id of the course row of the event's key.
C26_RowsReferToCourses ==
    /\ \A k \in 1..Len(store.ratings) : store.ratings[k].course_id \in CourseIds(store)
    /\ \A k \in 1..Len(store.comments) : store.comments[k].course_id \in CourseIds(store)
    /\ \A a \in store.course_instructors :
           a.course_id \in CourseIds(store) /\ a.instructor_id \in InstructorIds(store)
    /\ \A t \in store.processed_traces : t.course_id \in CourseIds(store)
    /\ WroteEvent =>
          LET m  == last[1].message
              b  == last[1].before
              cr == CourseRows(store, m.course)
              ir == InstructorRows(store, m.instructor)
          IN  /\ Cardinality(cr) = 1
              /\ \A c \in cr :
                    /\ \A k \in (Len(b.ratings) + 1)..Len(store.ratings) :
                           store.ratings[k].course_id = c.id
                    /\ \A k \in (Len(b.comments) + 1)..Len(store.comments) :
                           store.comments[k].course_id = c.id
                    /\ \A t \in TraceRows(store, m.traceId) : t.course_id = c.id
                    /\ \A i \in ir :
                           [course_id |-> c.id, instructor_id |-> i.id]
                               \in store.course_instructors

\* The store holds two courses, each with rating rows; the latest save wrote
\* the rating rows of the second.
C26_Witness ==
    /\ WroteEvent
    /\ Cardinality(store.courses) = 2
    /\ Len(last[1].message.ratings) > 0
    /\ \E j, k \in 1..Len(store.ratings) :
           store.ratings[j].course_id # store.ratings[k].course_id

\* C27: the processed_traces row a save writes has status "error" exactly
\* when the event carries an error string, the empty string included, and
\* "success" exactly when the field is absent; an event that carries an error
\* is persisted in full and its save returns True.
C27_StatusFollowsErrorField ==
    /\ \A t \in 1..MaxTraces :
          ingested[t] # NoValue =>
              \A r \in TraceRows(store, t) :
                  /\ r.status = "error" <=> ingested[t][1].error # NoValue
                  /\ r.status = "success" <=> ingested[t][1].error = NoValue
    /\ (WroteEvent /\ last[1].message.error # NoValue) =>
          /\ last[1].failAt = 0
          /\ Len(store.ratings) = Len(last[1].before.ratings) + Len(last[1].message.ratings)
          /\ Len(store.comments) = Len(last[1].before.comments) + Len(last[1].message.comments)

\* The part of C27 that holds: the status is "error" exactly when the error
\* field is a non-empty string.
C27_StatusFollowsTruthiness ==
    \A t \in 1..MaxTraces :
        ingested[t] # NoValue =>
            \A r \in TraceRows(store, t) :
                /\ r.status = "error" <=> Truthy(ingested[t][1].error)
                /\ r.status = "success" <=> ~Truthy(ingested[t][1].error)
                /\ r.error_message = ingested[t][1].error

----------------------------------------------------------------------------
(* Claims about the order of the steps of consume, checked under Spec *)

\* C28: on a successful attempt the offset of the message is committed before
\* the id joins the dedup set: in no state is the id of the message at hand
\* in the set while its commit has not been attempted.
C28_CommitBeforeDedupAdd ==
    (NewEvent /\ hist.trace_id \in processed_trace_ids) => hist.commit_calls >= 1

\* What the code does: the id joins the set in the step of the successful
\* attempt, and the commit is the step after it.
C28_DedupAddBeforeCommit ==
    [][(NewEvent /\ hist'.successes > hist.successes) =>
            /\ hist.trace_id \notin processed_trace_ids
            /\ hist.trace_id \in processed_trace_ids'
            /\ hist'.commit_calls = 0
            /\ pc' = "commit"]_vars

\* C30: every message that poll returns without an error has its offset
\* committed before consume polls again, whatever its payload, an empty or
\* absent value included.
C30_EveryMessageCommitted ==
    hist.done => hist.commit_calls >= 1

\* The part of C30 that holds: the messages whose value is not empty.
C30_NonEmptyMessageCommitted ==
    (hist.done /\ hist.kind \notin {"none", "empty"}) => hist.commit_calls >= 1

\* C21 as stated: the loop reports its connectivity to the aggregator: on
\* entering the backing-off path the broker flag becomes False, on leaving
\* _reconnect it tells whether the consumer is connected.
C21_ReconnectTransitionsReported ==
    [][/\ (PollErrorStep /\ pc' = "reconnect") => ~is_kafka_healthy'
       /\ (pc = "reconnect" /\ pc' = "poll") =>
              is_kafka_healthy' = (consumer' = "open")]_vars

\* C21 amended: no reconnect transition of the loop touches the aggregator:
\* entering the backing-off path, taking the cooldown, and completing or
\* failing a reconnect leave the three flags as they are.
C21_ReconnectTransitionsUnreported ==
    [][((PollErrorStep \/ pc = "reconnect") /\ pc' # "down") =>
            /\ is_kafka_healthy' = is_kafka_healthy
            /\ is_ready' = is_ready
            /\ is_db_healthy' = is_db_healthy]_vars

\* Two poll errors and two completed reconnects later the flag is still True.
C21_Witness ==
    /\ is_kafka_healthy
    /\ pc = "poll"
    /\ consumer = "open"
    /\ hist.consec = 2
    /\ reconnect_attempts = 2

----------------------------------------------------------------------------
(* Claims about shutdown, checked under SpecShutdown *)

\* The thread running consume holds a message it has not yet committed.
InFlight == pc \in {"attempt", "commit", "commit_dup", "commit_json", "commit_exc"}

\* join(timeout=30) has returned although the thread had not ended.
GraceElapsed == close_pc \in {"timed_out", "db_closed"}

\* C29: the broker and the store connection are closed only after the loop
\* has seen the stop flag at an iteration boundary, or after the grace period
\* has elapsed: an event in flight when the shutdown is requested still
\* commits its offset on an open consumer.
C29_ClosedOnlyAfterLoopStopped ==
    /\ [][(CloseConsumer \/ CloseDb) => (pc = "done" \/ close_pc = "timed_out")]_vars
    /\ [](InFlight => (consumer = "open" \/ GraceElapsed))

\* The part of C29 that holds: the store connection is closed only after
\* consume has returned or the grace period has elapsed.
C29_StoreClosedAfterJoin ==
    [][CloseDb => (pc = "done" \/ close_pc = "timed_out")]_vars

----------------------------------------------------------------------------
(* Claims about the connection of save_processed_message, checked under     *)
(* SpecConnection                                                           *)

\* The latest call found, by its SELECT 1, that the connection was lost.
FoundLost == last # NoValue /\ last[1].probe = "lost"

\* C25: when the SELECT 1 at the start of save_processed_message finds the
\* connection lost and the store is reachable, the call reconnects once and
\* goes on to its transaction on the new connection, returning True when no
\* statement fails; when the reconnect fails, the call returns False and
\* writes nothing.
C25_LostConnectionReconnectsOnce ==
    /\ [][(SaveEnsure /\ conn_txn = "broken") =>
            /\ store' = store
            /\ IF db_up
               THEN /\ saving' # NoValue
                    /\ saving'[1].probe = "lost"
                    /\ conn_txn' = "idle"
                    /\ ExecOk(conn_txn', db_up')
                    /\ last' = last
               ELSE /\ saving' = NoValue
                    /\ conn_txn' = "closed"
                    /\ last'[1].result = FALSE
                    /\ last'[1].probe = "lost"]_vars
    /\ [](FoundLost =>
            /\ last[1].failAt = 0 =>
                  /\ last[1].result = TRUE
                  /\ TraceExists(store, last[1].message.traceId)
            /\ last[1].failAt # 0 =>
                  (last[1].result = FALSE /\ store = last[1].before))

\* A call that found the connection lost has reconnected and saved its event
\* into the empty store.
C25_Witness ==
    /\ FoundLost
    /\ last[1].result = TRUE
    /\ last[1].before = EmptyStore
    /\ TraceExists(store, last[1].message.traceId)
    /\ saving = NoValue
    /\ conn_txn = "idle"

\* A call that found the connection lost and the store unreachable.
C25_WitnessReconnectFailed ==
    /\ FoundLost
    /\ last[1].failAt = 1
    /\ last[1].result = FALSE
    /\ conn_txn = "closed"
    /\ ~db_up

----------------------------------------------------------------------------
(* Claims about the start-up of main, checked under SpecStartup *)

Flags == {"is_ready", "is_db_healthy", "is_kafka_healthy"}

\* C22: each of the three flags is written by one thread only over the life
\* of the process, and the thread that serves the probes only reads them.
C22_OneWriterPerFlag ==
    /\ [](\A f \in Flags : Cardinality(writers[f]) <= 1)
    /\ [][Get => /\ is_ready' = is_ready
                 /\ is_db_healthy' = is_db_healthy
                 /\ is_kafka_healthy' = is_kafka_healthy]_vars

\* The part of C22 that holds: is_ready and is_kafka_healthy are written by
\* main only, is_db_healthy by main and by the prober, and by main only
\* before it starts the prober; the probe server writes none.
C22_MainAndProberWrite ==
    /\ [](/\ writers.is_ready \subseteq {"main"}
          /\ writers.is_kafka_healthy \subseteq {"main"}
          /\ writers.is_db_healthy \subseteq {"main", "health_check_worker"})
    /\ [][/\ Get => /\ is_ready' = is_ready
                    /\ is_db_healthy' = is_db_healthy
                    /\ is_kafka_healthy' = is_kafka_healthy
          /\ (MainHealthServer \/ MainDbTest) => probe_pc = "none"]_vars

\* Both writers of is_db_healthy have written it, main has written the two
\* other flags, and a probe has been answered since.
C22_Witness ==
    /\ writers.is_db_healthy = {"main", "health_check_worker"}
    /\ writers.is_ready = {"main"}
    /\ writers.is_kafka_healthy = {"main"}
    /\ main_pc = "wait"
    /\ response # NoValue
    /\ response[1].flags.is_ready

StartupSteps == <<"db", "seed", "prober", "kafka", "thread">>

\* C23: is_ready is True only after the store client has connected, the seed
\* has been loaded, the prober has been started, the broker consumer has been
\* created and the consume thread has been started, in this order.
C23_ReadyAfterAllSteps ==
    is_ready => main_done = StartupSteps

\* The part of C23 that holds: the steps that have completed have done so in
\* this order, and is_ready is True only after the client has connected, the
\* consumer has been created and subscribed and the thread started.
C23_ReadyAfterCoreSteps ==
    /\ \E sub \in SUBSET (1..Len(StartupSteps)) :
           main_done = [k \in 1..Cardinality(sub) |->
                           StartupSteps[CHOOSE i \in sub :
                               Cardinality({j \in sub : j < i}) = k - 1]]
    /\ is_ready =>
          /\ {"db", "kafka", "thread"} \subseteq SeqRange(main_done)
          /\ consumer = "open"
          /\ pc = "start"
          /\ is_kafka_healthy

----------------------------------------------------------------------------
(* Claims about the handle of consume after a failed _reconnect *)

\* C31: when a _reconnect has failed and the brokers are reachable from some
\* time on, the loop eventually holds an open, subscribed consumer again: it
\* does not poll a closed consumer forever.
C31_RecoversAfterFailedReconnect ==
    (<>[]broker_up) => [](consumer = "closed" => <>(consumer = "open"))

\* What the code does instead: self.consumer names a closed consumer only
\* after a _reconnect whose creation raised, and from then on every poll
\* raises, the loop sleeps one second and polls again: no step of consume
\* replaces the closed consumer, whatever the brokers do.
C31_ClosedConsumerIsKept ==
    /\ [][consumer = "closed" =>
            /\ consumer' = "closed"
            /\ PollRaises \/ BrokerDown \/ BrokerUp]_vars
    /\ [][(consumer = "open" /\ consumer' = "closed") => ReconnectBrokerDown]_vars

----------------------------------------------------------------------------
(* Claims about the consumers left by close, checked under SpecCloseRace *)

CloseReturned == close_pc \in {"closed", "joined", "timed_out"}

\* C33: once close has returned and consume has returned, no consumer created
\* by this KafkaConsumer is open, however close interleaves with consume and
\* with _reconnect.
C33_NoConsumerLeftOpen ==
    (CloseReturned /\ pc = "done") => consumer # "open"

\* What holds: after close has returned, a consumer is open only when
\* _reconnect has created it since, its own close of the old consumer having
\* returned.
C33_OnlyReconnectLeavesOneOpen ==
    [][(CloseReturned /\ consumer # "open" /\ consumer' = "open") => ReconnectCreateNew]_vars

----------------------------------------------------------------------------
(* Claims about two concurrent saves of one traceId, checked under           *)
(* SpecTwoSavers                                                             *)

Winners == {i \in Instances : savers[i].outcome = "committed"}

BothReturned == \A i \in Instances : savers[i].outcome # "none"

\* C32: two calls of save_processed_message for one traceId, on two
\* connections, however their statements interleave: at most one commits
\* writes, the store holds one processed_traces row of the traceId and
\* exactly the rows a call of the winner alone writes, the other call has
\* written nothing; and one does commit when no statement fails for a reason
\* of the environment.
C32_OneTransactionWins ==
    /\ Cardinality(Winners) <= 1
    /\ Cardinality(TraceRows(store, TheEvent.traceId)) = Cardinality(Winners)
    /\ Winners = {} => store = EmptyStore
    /\ \A i \in Winners :
          store = save_processed_message(EmptyStore, savers[i].message[1], 0).db
    /\ (BothReturned /\ \A i \in Instances : savers[i].outcome # "failed")
          => Cardinality(Winners) = 1

\* Both calls passed the duplicate check and executed their writes at the
\* same time, on different instructors and courses; one has committed and
\* the insert of the trace row of the other has been rejected.
C32_Witness ==
    /\ BothReturned
    /\ \E i, j \in Instances :
          /\ savers[i].outcome = "committed"
          /\ savers[j].outcome = "rejected"
          /\ savers[i].message[1].course # savers[j].message[1].course
          /\ Len(savers[j].ops) = Len(savers[j].message[1].ratings)
                                  + Len(savers[j].message[1].comments) + 3
          /\ Len(store.ratings) = Len(savers[i].message[1].ratings)

====
